---- MODULE Spec2Model ----
(***************************************************************************)
(* Model of the nvenc encoder pipeline: EncoderInput (producer),           *)
(* EncoderOutput (consumer), the ring shared by NvidiaEncoderWriter and    *)
(* NvidiaEncoderReader, and the driver/hardware that completes accepted    *)
(* submissions and signals their completion events.                        *)
(*                                                                         *)
(* encoder/shared.rs (NvidiaEncoderWriter::write, NvidiaEncoderReader::    *)
(* read, encoder_channel) and encoder/buffer_items.rs are not among the    *)
(* source files; the ring operations Writer_* and Reader_* follow the      *)
(* design document (sections 3, 4.1, 4.2), everything else follows the     *)
(* source.  The ring is parametric in its capacity: builder.rs:15 fixes    *)
(* BUFFER_SIZE = 8, the model checks a ring of Capacity slots.             *)
(*                                                                         *)
(* The specifications share the variables:                                 *)
(*   Spec              the pipeline after a successful build;              *)
(*   SpecConsumerDrop  the pipeline, with the consumer handle dropped;     *)
(*   SpecBuilder       EncoderBuilder from new to build (builder.rs,       *)
(*                     config.rs, settings/mod.rs);                        *)
(*   SpecStatus        the NVENCSTATUS conversions of error.rs;            *)
(*   SpecForceIdr      the pipeline with force_idr_on_next;                *)
(*   SpecTimeout       the pipeline with a wait that can time out;         *)
(*   SpecVersion       the version gate of EncoderBuilder::new;            *)
(*   SpecBitrate       the pipeline with update_average_bitrate;           *)
(*   SpecAspect        the display aspect ratio of the initialize          *)
(*                     parameters (config.rs);                             *)
(*   SpecFair          the pipeline with both threads and the driver       *)
(*                     scheduled fairly;                                   *)
(*   SpecDropFair      the same with a consumer that may stop retrieving.  *)
(***************************************************************************)
EXTENDS Integers, Sequences, FiniteSets, TLC

\* ---------------------------------------------------------------- bounds
\* Ring capacity C (BUFFER_SIZE in the build).
Capacity == 3
\* Number of encode_frame calls the producer makes at most.
MaxFrames == 4
\* Number of external calls (driver, OS, caller closure) that fail at most.
MaxFaults == 2
\* Largest version number a driver reports (NvEncodeAPIGetMaxSupportedVersion).
MaxDriverVersion == 255
\* Largest width and height passed to build.
MaxDim == 8

VARIABLES
    \* ---- ring shared by writer and reader
    write_count,        \* submissions published so far (submission_count)
    channel,            \* ordering channel: FIFO of slot indices
    slot_state,         \* slot -> "FREE" | "SUBMITTED" | "LOCKED"
    \* ---- EncoderBufferItems, one per slot
    mapped_input,       \* slot -> pointer of the mapped input (Null at start)
    end_of_stream,      \* slot -> BOOLEAN
    event_obj,          \* slot -> BOOLEAN, the auto-reset event is signalled
    \* ---- EncoderInput
    texture_buffer,     \* staging subresource -> frame held (0: none)
    encode_pic_params,  \* NV_ENC_PIC_PARAMS kept across calls
    pc_in,              \* position of the producer thread
    index_in,           \* slot index handed to the write closure
    frame_count,        \* encode_frame calls made so far
    result_in,          \* result of the last producer call
    \* ---- driver / hardware
    hw_pending,         \* accepted submissions not yet completed
    output_buffer,      \* slot -> frame whose bitstream the buffer holds
    bitstream_locked,   \* slot -> BOOLEAN
    mapped_resources,   \* set of input pointers currently mapped
    \* ---- EncoderOutput
    pc_out,             \* position of the consumer thread
    index_out,          \* slot index popped by the current read
    lock_params,        \* NV_ENC_LOCK_BITSTREAM of the current call
    result_out,         \* result of the last consumer call
    \* ---- history (observations, read by no action guard)
    accepted,           \* frames whose encode_picture succeeded, in order
    delivered,          \* frames handed to consume_output, in order
    in_flight,          \* slot indices published and not yet released
    rejected,           \* slots whose published submission the driver refused
    calls_out,          \* external calls made by the current consumer call
    eos_returns,        \* number of EndOfStream results returned
    signalled,          \* frames (0: end of stream) in the order the driver signalled
    faults,             \* kind of external call -> failures injected so far
    wait_failed,        \* slots whose completion wait returned an error
    \* ---- build target and driver, as seen by EncoderBuilder
    cfg_windows,        \* BOOLEAN: the build has #[cfg(windows)]
    encode_guids,       \* codec GUIDs the driver lists (NvEncGetEncodeGUIDs)
    \* ---- EncoderBuilder
    codec,              \* Option<Codec>
    profile,            \* CodecProfile
    preset,             \* Option<EncodePreset>
    extra_options,      \* ExtraOptions: the filler data fields
    pc_builder,         \* "building" | "consumed" (build took self) | "panicked"
    call_builder,       \* the last builder call: [op, arg]
    result_builder,     \* result of the last builder call
    encode_params,      \* EncodeParams made by build (None before)
    build_calls,        \* calls build made after its two precondition tests
    with_codec_ok,      \* history: a with_codec call returned Ok
    with_encode_preset_ok, \* history: a with_encode_preset call returned Ok
    filler_data_arg,    \* history: argument of the last filler_data_insertion
    \* ---- status conversion (error.rs)
    status_arg,         \* an NVENCSTATUS
    nonzero_arg,        \* a NonZeroNvencStatus
    status_trip,        \* the last conversion made and what it returned
    \* ---- EncoderBuilder::new
    api_version,        \* <<NVENCAPI_MAJOR_VERSION, NVENCAPI_MINOR_VERSION>> of the build
    max_supported_version, \* what get_max_supported_version reports
    pc_new,             \* "calling" | "returned"
    result_new,         \* result of EncoderBuilder::new
    calls_new,          \* calls EncoderBuilder::new has made, in order
    \* ---- EncoderInput::update_average_bitrate
    rc_params,          \* encode_params: rcParams of the encode configuration
    call_update,        \* the update_average_bitrate call made: its arguments
    \* ---- display aspect ratio (builder.rs, config.rs)
    display_aspect_ratio, \* ExtraOptions: Option<(u32, u32)>
    dar_params,        \* NV_ENC_INITIALIZE_PARAMS: size and display aspect ratio
    pc_aspect           \* "building" | "built" | "panicked"

ring_vars == <<write_count, channel, slot_state>>
item_vars == <<mapped_input, end_of_stream, event_obj>>
in_vars == <<texture_buffer, encode_pic_params, pc_in, index_in, frame_count, result_in>>
hw_vars == <<hw_pending, output_buffer, bitstream_locked, mapped_resources>>
out_vars == <<pc_out, index_out, lock_params, result_out>>
hist_vars == <<accepted, delivered, in_flight, rejected, calls_out, eos_returns,
               signalled, faults>>
builder_vars == <<cfg_windows, encode_guids, codec, profile, preset, extra_options,
                  pc_builder, call_builder, result_builder, encode_params,
                  build_calls, with_codec_ok, with_encode_preset_ok,
                  filler_data_arg>>
status_vars == <<status_arg, nonzero_arg, status_trip>>
version_vars == <<api_version, max_supported_version, pc_new, result_new, calls_new>>
bitrate_vars == <<rc_params, call_update>>
aspect_vars == <<display_aspect_ratio, dar_params, pc_aspect>>
more_vars == <<version_vars, bitrate_vars, aspect_vars>>
other_vars == <<builder_vars, status_vars, more_vars>>
vars == <<ring_vars, item_vars, in_vars, hw_vars, out_vars, hist_vars, wait_failed,
          other_vars>>

\* ------------------------------------------------------------ basic values
\* Slots of the ring.
Slots == 0 .. (Capacity - 1)
\* Staging subresources created by build: ArraySize = buf_size = BUFFER_SIZE.
TextureSubresourcesShort == 0 .. (Capacity - 2)
TextureSubresources == 0 .. (Capacity - 1)

\* The values held by a sequence.
Range(seq) == {seq[k] : k \in 1 .. Len(seq)}

\* Option<T>: None, Some(x).
None == <<>>
Some(x) == <<x>>
Unwrap(o) == o[1]

\* A raw pointer: Null, or the address of the item of slot i.
Null == <<>>
Ptr(i) == <<i>>
Deref(p) == p[1]

\* NV_ENC_PIC_FLAGS values used by the code.
FLAG_NONE == "0"
FLAG_EOS == "EOS"
FLAG_FORCEIDR_OUTPUT_SPSPPS == "FORCEIDR|OUTPUT_SPSPPS"

NoCalls == [lock |-> 0, unlock |-> 0, unmap |-> 0, consume |-> 0]

\* External calls that can fail, and the budget of injected failures.
FaultKinds == {"map_input", "encode_picture", "wait", "lock_bitstream",
               "consume_output", "unlock_bitstream", "unmap_input"}
RECURSIVE SumOver(_, _)
SumOver(f, S) == IF S = {} THEN 0
                 ELSE LET x == CHOOSE y \in S : TRUE IN f[x] + SumOver(f, S \ {x})
TotalFaults == SumOver(faults, FaultKinds)
Fails(kind) ==
    /\ TotalFaults < MaxFaults
    /\ faults' = [faults EXCEPT ![kind] = @ + 1]

\* ExtraOptions::default(): filler data insertion is off.
ExtraOptionsDefault == [filler_data_frame_rate |-> None, filler_data_enabled |-> 0]

\* EncoderBuilder::new: no codec, profile Autoselect, no preset, default options.
BuilderNew ==
    /\ codec = None
    /\ profile = "Autoselect"
    /\ preset = None
    /\ extra_options = ExtraOptionsDefault
    /\ call_builder = [op |-> "new", arg |-> None]
    /\ result_builder = "Ok"
    /\ encode_params = None
    /\ build_calls = <<>>
    /\ with_codec_ok = FALSE
    /\ with_encode_preset_ok = FALSE
    /\ filler_data_arg = None

\* No status conversion has been made.
NoTrip == [op |-> "none", first |-> None, second |-> None]
StatusIdle ==
    /\ status_arg = "NV_ENC_SUCCESS"
    /\ nonzero_arg = "NV_ENC_ERR_NO_ENCODE_DEVICE"
    /\ status_trip = NoTrip

\* EncoderBuilder::new has returned Ok: the library was loaded, the driver
\* reported the version of the build (API 10.0), the encode session is open.
NewReturned ==
    /\ api_version = <<10, 0>>
    /\ max_supported_version = 160
    /\ pc_new = "returned"
    /\ result_new = "Ok"
    /\ calls_new = <<"Library::load", "get_max_supported_version", "RawEncoder::new">>

\* rcParams as the preset configuration of the driver leaves them.
RcParamsOfPreset ==
    [averageBitRate |-> 5, maxBitRate |-> 0, vbvBufferSize |-> 7, vbvInitialDelay |-> 6]
NoUpdate == [op |-> "none"]

\* The initialize parameters of a 4 x 2 encoder built without a display
\* aspect ratio.
AspectBuilt ==
    /\ display_aspect_ratio = None
    /\ dar_params = [encodeWidth |-> 4, encodeHeight |-> 2,
                      darWidth |-> 2, darHeight |-> 1]
    /\ pc_aspect = "built"

\* The ring, the two handles and the driver as build leaves them.
PipelineInit ==
    /\ write_count = 0
    /\ channel = <<>>
    /\ slot_state = [i \in Slots |-> "FREE"]
    /\ mapped_input = [i \in Slots |-> Null]
    /\ end_of_stream = [i \in Slots |-> FALSE]
    /\ event_obj = [i \in Slots |-> FALSE]
    /\ texture_buffer = [i \in TextureSubresources |-> 0]
    /\ encode_pic_params = [inputBuffer |-> Null, outputBitstream |-> Null,
                            completionEvent |-> Null, encodePicFlags |-> FLAG_NONE,
                            inputTimeStamp |-> 0]
    /\ pc_in = "idle"
    /\ index_in = 0
    /\ frame_count = 0
    /\ result_in = "none"
    /\ hw_pending = {}
    /\ output_buffer = [i \in Slots |-> 0]
    /\ bitstream_locked = [i \in Slots |-> FALSE]
    /\ mapped_resources = {}
    /\ pc_out = "idle"
    /\ index_out = 0
    /\ lock_params = [outputBitstream |-> Null]
    /\ result_out = "none"
    /\ accepted = <<>>
    /\ delivered = <<>>
    /\ in_flight = <<>>
    /\ rejected = {}
    /\ calls_out = NoCalls
    /\ eos_returns = 0
    /\ signalled = <<>>
    /\ faults = [k \in FaultKinds |-> 0]
    /\ wait_failed = {}
    /\ rc_params = RcParamsOfPreset
    /\ call_update = NoUpdate

\* The pipeline after build: the builder has been consumed (build takes self),
\* the build is the Windows one (asynchronous encoding, event/windows.rs), and
\* neither the builder nor the status conversions take a step.
Init ==
    /\ PipelineInit
    /\ AspectBuilt
    /\ NewReturned
    /\ BuilderNew
    /\ pc_builder = "consumed"
    /\ cfg_windows = TRUE
    /\ encode_guids = {}
    /\ StatusIdle

\* ------------------------------------------------------- ring: writer side
\* Slot offered to the writer: strict round robin over 0..C-1.
Writer_NextIndex == write_count % Capacity

\* acquire_slot_for_write blocks until the round-robin slot is FREE.
Writer_CanAcquireAlways == TRUE
Writer_CanAcquire == slot_state[Writer_NextIndex] = "FREE"

\* publish(index): the index enters the ordering channel, the slot is SUBMITTED.
Writer_Publish(index) ==
    /\ channel' = Append(channel, index)
    /\ write_count' = write_count + 1
    /\ slot_state' = [slot_state EXCEPT ![index] = "SUBMITTED"]
    /\ in_flight' = Append(in_flight, index)

\* write(): first half, the blocking acquisition of the next slot.
Writer_Acquire ==
    /\ pc_in \in {"frame_acquire", "eos_acquire"}
    /\ Writer_CanAcquire
    /\ index_in' = Writer_NextIndex
    /\ pc_in' = IF pc_in = "frame_acquire" THEN "frame_populate" ELSE "eos_populate"
    /\ UNCHANGED <<ring_vars, item_vars, texture_buffer, encode_pic_params,
                   frame_count, result_in, hw_vars, out_vars, hist_vars>>

    /\ UNCHANGED <<wait_failed, other_vars>>
\* ------------------------------------------------------------ EncoderInput
\* encode_frame is entered with the next texture; frames are numbered 1, 2, ...
EncodeFrame_Call ==
    /\ pc_in = "idle"
    /\ frame_count < MaxFrames
    /\ frame_count' = frame_count + 1
    /\ pc_in' = "frame_acquire"
    /\ result_in' = "pending"
    /\ UNCHANGED <<ring_vars, item_vars, texture_buffer, encode_pic_params,
                   index_in, hw_vars, out_vars, hist_vars>>

    /\ UNCHANGED <<wait_failed, other_vars>>
\* Staging subresource copy_texture writes for the slot index it is given.
CopyTextureIndexNext(index) == (index + 1) % Capacity
CopyTextureIndex(index) == index

\* Output buffer the closure of encode_frame puts into the picture parameters.
OutputBitstreamOf(index) == Ptr(index)

\* map_input: the mapped resource of the registered staging subresource.
MapInput(registered) == Ptr(registered)

\* The closure handed to write() by encode_frame, then the publish of write().
EncodeFrame_Populate ==
    /\ pc_in = "frame_populate"
    /\ texture_buffer' =
           [texture_buffer EXCEPT ![CopyTextureIndex(index_in)] = frame_count]
    /\ \/ /\ mapped_input' = [mapped_input EXCEPT ![index_in] = MapInput(index_in)]
          /\ mapped_resources' = mapped_resources \cup {MapInput(index_in)}
          /\ encode_pic_params' =
                 [encode_pic_params EXCEPT
                      !.inputBuffer = MapInput(index_in),
                      !.outputBitstream = OutputBitstreamOf(index_in),
                      !.completionEvent = Ptr(index_in)]
          /\ Writer_Publish(index_in)
          /\ pc_in' = "frame_submit"
          /\ UNCHANGED <<result_in, faults>>
       \/ /\ Fails("map_input")
          /\ pc_in' = "idle"
          /\ result_in' = "MapInputError"
          /\ UNCHANGED <<ring_vars, mapped_input, mapped_resources,
                         encode_pic_params, in_flight>>
    /\ UNCHANGED <<end_of_stream, event_obj, index_in, frame_count, hw_pending,
                   output_buffer, bitstream_locked, out_vars, accepted, delivered,
                   rejected, calls_out, eos_returns,
                   signalled>>

    /\ UNCHANGED <<wait_failed, other_vars>>
\* What the driver keeps of an accepted NV_ENC_PIC_PARAMS.
DriverJob(p) ==
    [inputBuffer |-> p.inputBuffer, outputBitstream |-> p.outputBitstream,
     completionEvent |-> p.completionEvent, encodePicFlags |-> p.encodePicFlags,
     inputTimeStamp |-> p.inputTimeStamp]

\* An encode_frame that would leave the picture flags as they are.
EncodeFrame_SubmitKeepingFlags ==
    /\ pc_in = "frame_submit"
    /\ LET p == [encode_pic_params EXCEPT !.inputTimeStamp = frame_count] IN
       \/ /\ hw_pending' = hw_pending \cup {DriverJob(p)}
          /\ encode_pic_params' = p
          /\ accepted' = Append(accepted, frame_count)
          /\ result_in' = "Ok"
          /\ UNCHANGED <<rejected, faults>>
       \/ /\ Fails("encode_picture")
          /\ encode_pic_params' = p
          /\ rejected' = rejected \cup {index_in}
          /\ result_in' = "EncodePictureError"
          /\ UNCHANGED <<hw_pending, accepted>>
    /\ pc_in' = "idle"
    /\ UNCHANGED <<ring_vars, item_vars, texture_buffer, index_in, frame_count,
                   output_buffer, bitstream_locked, mapped_resources, out_vars,
                   delivered, in_flight, calls_out, eos_returns,
                   signalled>>
    /\ UNCHANGED <<wait_failed, other_vars>>

\* encode_frame after write() has returned: timestamp, encode_picture, flag reset.
EncodeFrame_Submit ==
    /\ pc_in = "frame_submit"
    /\ LET p == [encode_pic_params EXCEPT !.inputTimeStamp = frame_count] IN
       \/ /\ hw_pending' = hw_pending \cup {DriverJob(p)}
          /\ encode_pic_params' = [p EXCEPT !.encodePicFlags = FLAG_NONE]
          /\ accepted' = Append(accepted, frame_count)
          /\ result_in' = "Ok"
          /\ UNCHANGED <<rejected, faults>>
       \/ /\ Fails("encode_picture")
          /\ encode_pic_params' = p
          /\ rejected' = rejected \cup {index_in}
          /\ result_in' = "EncodePictureError"
          /\ UNCHANGED <<hw_pending, accepted>>
    /\ pc_in' = "idle"
    /\ UNCHANGED <<ring_vars, item_vars, texture_buffer, index_in, frame_count,
                   output_buffer, bitstream_locked, mapped_resources, out_vars,
                   delivered, in_flight, calls_out, eos_returns,
                   signalled>>

    /\ UNCHANGED <<wait_failed, other_vars>>
\* Drop for EncoderInput: let _ = self.end_encode().
Drop_Call ==
    /\ pc_in = "idle"
    /\ pc_in' = "eos_acquire"
    /\ result_in' = "pending"
    /\ UNCHANGED <<ring_vars, item_vars, texture_buffer, encode_pic_params,
                   index_in, frame_count, hw_vars, out_vars, hist_vars>>

    /\ UNCHANGED <<wait_failed, other_vars>>
\* The closure handed to write() by end_encode, then the publish of write().
EndEncode_Populate ==
    /\ pc_in = "eos_populate"
    /\ end_of_stream' = [end_of_stream EXCEPT ![index_in] = TRUE]
    /\ encode_pic_params' =
           [encode_pic_params EXCEPT
                !.inputBuffer = Null,
                !.outputBitstream = Null,
                !.completionEvent = Ptr(index_in),
                !.encodePicFlags = FLAG_EOS]
    /\ Writer_Publish(index_in)
    /\ pc_in' = "eos_submit"
    /\ UNCHANGED <<mapped_input, event_obj, texture_buffer, index_in, frame_count,
                   result_in, hw_vars, out_vars, accepted, delivered, rejected,
                   calls_out, eos_returns, signalled,
                   faults>>

    /\ UNCHANGED <<wait_failed, other_vars>>
\* end_encode after write() has returned; Drop discards the result.
EndEncode_Submit ==
    /\ pc_in = "eos_submit"
    /\ \/ /\ hw_pending' = hw_pending \cup {DriverJob(encode_pic_params)}
          /\ result_in' = "Ok"
          /\ UNCHANGED <<rejected, faults>>
       \/ /\ Fails("encode_picture")
          /\ rejected' = rejected \cup {index_in}
          /\ result_in' = "EncodePictureError"
          /\ UNCHANGED hw_pending
    /\ pc_in' = "dropped"
    /\ UNCHANGED <<ring_vars, item_vars, texture_buffer, encode_pic_params,
                   index_in, frame_count, output_buffer, bitstream_locked,
                   mapped_resources, out_vars, accepted, delivered, in_flight,
                   calls_out, eos_returns,
                   signalled>>

    /\ UNCHANGED <<wait_failed, other_vars>>
\* ------------------------------------------------------- driver / hardware
\* An accepted submission completes: the hardware has read the mapped input,
\* written the bitstream, and the driver sets the completion event.
Hw_Complete ==
    \E job \in hw_pending :
        /\ hw_pending' = hw_pending \ {job}
        /\ output_buffer' =
               IF job.encodePicFlags = FLAG_EOS
               THEN output_buffer
               ELSE [output_buffer EXCEPT ![Deref(job.outputBitstream)] =
                         texture_buffer[Deref(job.inputBuffer)]]
        /\ event_obj' = [event_obj EXCEPT ![Deref(job.completionEvent)] = TRUE]
        /\ signalled' = Append(signalled, IF job.encodePicFlags = FLAG_EOS
                                          THEN 0 ELSE job.inputTimeStamp)
        /\ UNCHANGED <<ring_vars, mapped_input, end_of_stream, in_vars,
                       bitstream_locked, mapped_resources, out_vars, accepted,
                       delivered, in_flight, rejected, calls_out, eos_returns,
                       faults>>

        /\ UNCHANGED <<wait_failed, other_vars>>

\* ------------------------------------------------------- ring: reader side
\* Removes the released index from the indices in flight.
Without(seq, index) == SelectSeq(seq, LAMBDA x : x # index)

\* release(index): the slot is FREE again.
Reader_Release(index) ==
    /\ slot_state' = [slot_state EXCEPT ![index] = "FREE"]
    /\ in_flight' = Without(in_flight, index)

\* read(): take_next_for_read pops the next index, blocking while the channel
\* is empty; the closure of wait_for_output then runs on that slot.
Reader_Take ==
    /\ pc_out = "idle"
    /\ channel # <<>>
    /\ index_out' = Head(channel)
    /\ channel' = Tail(channel)
    /\ pc_out' = "wait"
    /\ result_out' = "pending"
    /\ calls_out' = NoCalls
    /\ UNCHANGED <<write_count, slot_state, item_vars, in_vars, hw_vars,
                   lock_params, accepted, delivered, in_flight, rejected,
                   eos_returns, signalled,
                   faults>>

    /\ UNCHANGED <<wait_failed, other_vars>>
\* ----------------------------------------------------------- EncoderOutput
\* EventObject::wait returns Ok once the event of that slot is signalled.
EventSignalledAny(index) == TRUE
EventSignalled(index) == event_obj[index]

\* if buffer.end_of_stream { return Err(NvEncError::EndOfStream) }
IsEndOfStreamNever(index) == FALSE
IsEndOfStream(index) == end_of_stream[index]

\* Bitstream buffer wait_for_output locks for the slot it was handed.
LockTargetFirst(index) == Ptr(0)
LockTarget(index) == Ptr(index)

\* A wait on a manual-reset event: a successful wait would leave it signalled.
WaitForOutput_WaitManualReset ==
    /\ pc_out = "wait"
    /\ \/ /\ EventSignalled(index_out)
          /\ slot_state' = [slot_state EXCEPT ![index_out] = "LOCKED"]
          /\ IF IsEndOfStream(index_out)
             THEN /\ pc_out' = "idle"
                  /\ result_out' = "EndOfStream"
                  /\ eos_returns' = eos_returns + 1
             ELSE /\ pc_out' = "lock"
                  /\ UNCHANGED <<result_out, eos_returns>>
          /\ UNCHANGED <<event_obj, faults, wait_failed>>
       \/ /\ Fails("wait")
          /\ pc_out' = "idle"
          /\ result_out' = "EventObjectWaitError"
          /\ wait_failed' = wait_failed \cup {index_out}
          /\ UNCHANGED <<event_obj, slot_state, eos_returns>>
    /\ UNCHANGED <<write_count, channel, mapped_input, end_of_stream, in_vars,
                   hw_vars, index_out, lock_params, accepted, delivered,
                   in_flight, rejected, calls_out, signalled>>
    /\ UNCHANGED other_vars

\* buffer.event_obj.wait()?, then the end_of_stream test.
WaitForOutput_Wait ==
    /\ pc_out = "wait"
    /\ \/ /\ EventSignalled(index_out)
          /\ event_obj' = [event_obj EXCEPT ![index_out] = FALSE]
          /\ slot_state' = [slot_state EXCEPT ![index_out] = "LOCKED"]
          /\ IF IsEndOfStream(index_out)
             THEN /\ pc_out' = "idle"
                  /\ result_out' = "EndOfStream"
                  /\ eos_returns' = eos_returns + 1
             ELSE /\ pc_out' = "lock"
                  /\ UNCHANGED <<result_out, eos_returns>>
          /\ UNCHANGED <<faults, wait_failed>>
       \/ /\ Fails("wait")
          /\ pc_out' = "idle"
          /\ result_out' = "EventObjectWaitError"
          /\ wait_failed' = wait_failed \cup {index_out}
          /\ UNCHANGED <<event_obj, slot_state, eos_returns>>
    /\ UNCHANGED <<write_count, channel, mapped_input, end_of_stream, in_vars,
                   hw_vars, index_out, lock_params, accepted, delivered,
                   in_flight, rejected, calls_out, signalled>>

    /\ UNCHANGED other_vars
\* lock_params.outputBitstream = buffer.output_buffer; lock_bitstream(..)?
WaitForOutput_Lock ==
    /\ pc_out = "lock"
    /\ lock_params' = [outputBitstream |-> LockTarget(index_out)]
    /\ calls_out' = [calls_out EXCEPT !.lock = @ + 1]
    /\ \/ /\ bitstream_locked' =
                 [bitstream_locked EXCEPT ![Deref(lock_params'.outputBitstream)] = TRUE]
          /\ pc_out' = "consume"
          /\ UNCHANGED <<result_out, faults>>
       \/ /\ Fails("lock_bitstream")
          /\ pc_out' = "idle"
          /\ result_out' = "LockBitstreamError"
          /\ UNCHANGED bitstream_locked
    /\ UNCHANGED <<ring_vars, item_vars, in_vars, hw_pending, output_buffer,
                   mapped_resources, index_out, accepted, delivered, in_flight,
                   rejected, eos_returns,
                   signalled>>

    /\ UNCHANGED <<wait_failed, other_vars>>
\* consume_output(&lock_params): the caller reads the locked bitstream; a panic
\* of the caller's closure unwinds out of wait_for_output.
WaitForOutput_Consume ==
    /\ pc_out = "consume"
    /\ calls_out' = [calls_out EXCEPT !.consume = @ + 1]
    /\ \/ /\ delivered' =
                 Append(delivered, output_buffer[Deref(lock_params.outputBitstream)])
          /\ pc_out' = "unlock"
          /\ UNCHANGED <<result_out, faults>>
       \/ /\ Fails("consume_output")
          /\ pc_out' = "idle"
          /\ result_out' = "Panic"
          /\ UNCHANGED delivered
    /\ UNCHANGED <<ring_vars, item_vars, in_vars, hw_vars, index_out, lock_params,
                   accepted, in_flight, rejected, eos_returns,
                   signalled>>

    /\ UNCHANGED <<wait_failed, other_vars>>
\* An unlock step that would release the slot before the input is unmapped.
WaitForOutput_UnlockReleasing ==
    /\ pc_out = "unlock"
    /\ calls_out' = [calls_out EXCEPT !.unlock = @ + 1]
    /\ \/ /\ bitstream_locked' =
                 [bitstream_locked EXCEPT ![Deref(lock_params.outputBitstream)] = FALSE]
          /\ Reader_Release(index_out)
          /\ pc_out' = "unmap"
          /\ UNCHANGED <<result_out, faults>>
       \/ /\ Fails("unlock_bitstream")
          /\ pc_out' = "idle"
          /\ result_out' = "UnlockBitstreamError"
          /\ UNCHANGED <<bitstream_locked, slot_state, in_flight>>
    /\ UNCHANGED <<write_count, channel, item_vars, in_vars, hw_pending, output_buffer,
                   mapped_resources, index_out, lock_params, accepted, delivered,
                   rejected, eos_returns, signalled>>
    /\ UNCHANGED <<wait_failed, other_vars>>

\* unlock_bitstream(lock_params.outputBitstream)?
WaitForOutput_Unlock ==
    /\ pc_out = "unlock"
    /\ calls_out' = [calls_out EXCEPT !.unlock = @ + 1]
    /\ \/ /\ bitstream_locked' =
                 [bitstream_locked EXCEPT ![Deref(lock_params.outputBitstream)] = FALSE]
          /\ pc_out' = "unmap"
          /\ UNCHANGED <<result_out, faults>>
       \/ /\ Fails("unlock_bitstream")
          /\ pc_out' = "idle"
          /\ result_out' = "UnlockBitstreamError"
          /\ UNCHANGED bitstream_locked
    /\ UNCHANGED <<ring_vars, item_vars, in_vars, hw_pending, output_buffer,
                   mapped_resources, index_out, lock_params, accepted, delivered,
                   in_flight, rejected, eos_returns,
                   signalled>>

    /\ UNCHANGED <<wait_failed, other_vars>>
\* unmap_input_resource(buffer.mapped_input)?; Ok(()) ends the closure and
\* read() releases the slot.
WaitForOutput_Unmap ==
    /\ pc_out = "unmap"
    /\ calls_out' = [calls_out EXCEPT !.unmap = @ + 1]
    /\ \/ /\ mapped_resources' = mapped_resources \ {mapped_input[index_out]}
          /\ Reader_Release(index_out)
          /\ result_out' = "Ok"
          /\ UNCHANGED faults
       \/ /\ Fails("unmap_input")
          /\ result_out' = "UnmapInputError"
          /\ UNCHANGED <<mapped_resources, slot_state, in_flight>>
    /\ pc_out' = "idle"
    /\ UNCHANGED <<write_count, channel, item_vars, in_vars, hw_pending,
                   output_buffer, bitstream_locked, index_out, lock_params,
                   accepted, delivered, rejected, eos_returns,
                   signalled>>

    /\ UNCHANGED <<wait_failed, other_vars>>
\* ------------------------------------------------------------ specification
Next ==
    \/ EncodeFrame_Call
    \/ Writer_Acquire
    \/ EncodeFrame_Populate
    \/ EncodeFrame_Submit
    \/ Drop_Call
    \/ EndEncode_Populate
    \/ EndEncode_Submit
    \/ Hw_Complete
    \/ Reader_Take
    \/ WaitForOutput_Wait
    \/ WaitForOutput_Lock
    \/ WaitForOutput_Consume
    \/ WaitForOutput_Unlock
    \/ WaitForOutput_Unmap

Spec == Init /\ [][Next]_vars

\* ------------------------------------------------------------------ fairness
\* A step of a call the producer thread is in: a call that has been entered
\* goes on, but no driver call is ever obliged to fail, and the caller is not
\* obliged to submit another frame or to drop the handle.
ProducerStep ==
    /\ \/ Writer_Acquire
       \/ EncodeFrame_Populate
       \/ EncodeFrame_Submit
       \/ EndEncode_Populate
       \/ EndEncode_Submit
    /\ faults' = faults

\* A step of the consumer thread, which calls wait_for_output again whenever
\* the previous call has returned.
ConsumerStep ==
    /\ \/ Reader_Take
       \/ WaitForOutput_Wait
       \/ WaitForOutput_Lock
       \/ WaitForOutput_Consume
       \/ WaitForOutput_Unlock
       \/ WaitForOutput_Unmap
    /\ faults' = faults

\* Both threads are scheduled, and the driver completes what it accepted.
Fairness ==
    /\ WF_vars(ProducerStep)
    /\ WF_vars(ConsumerStep)
    /\ WF_vars(Hw_Complete)

SpecFair == Init /\ [][Next]_vars /\ Fairness

\* ------------------------------------------------- drop of the consumer handle
\* A drop of EncoderOutput that would release what is still in flight.
Output_DropReleasing ==
    /\ pc_out = "idle"
    /\ pc_out' = "dropped"
    /\ slot_state' = [i \in Slots |-> "FREE"]
    /\ channel' = <<>>
    /\ in_flight' = <<>>
    /\ mapped_resources' = {}
    /\ UNCHANGED <<write_count, item_vars, in_vars, hw_pending, output_buffer,
                   bitstream_locked, index_out, lock_params, result_out, accepted,
                   delivered, rejected, calls_out, eos_returns, signalled, faults,
                   wait_failed, other_vars>>

\* EncoderOutput has no Drop of its own: between two wait_for_output calls the
\* handle can go away, and nothing is done for the slots still in flight.
Output_Drop ==
    /\ pc_out = "idle"
    /\ pc_out' = "dropped"
    /\ UNCHANGED <<ring_vars, item_vars, in_vars, hw_vars, index_out, lock_params,
                   result_out, hist_vars, wait_failed, other_vars>>

NextConsumerDrop ==
    \/ Next
    \/ Output_Drop

SpecConsumerDrop == Init /\ [][NextConsumerDrop]_vars

\* A step of a wait_for_output call the consumer thread is in; the consumer is
\* not obliged to call wait_for_output again.
ConsumerCallStep ==
    /\ \/ WaitForOutput_Wait
       \/ WaitForOutput_Lock
       \/ WaitForOutput_Consume
       \/ WaitForOutput_Unlock
       \/ WaitForOutput_Unmap
    /\ faults' = faults

\* Both threads are scheduled while they are inside a call, and the driver
\* completes what it accepted.
FairnessOfCalls ==
    /\ WF_vars(ProducerStep)
    /\ WF_vars(ConsumerCallStep)
    /\ WF_vars(Hw_Complete)

SpecDropFair == Init /\ [][NextConsumerDrop]_vars /\ FairnessOfCalls

\* ------------------------------------------------------- force_idr_on_next
\* force_idr_on_next(&mut self): called between two calls on the producer
\* handle; sets the two picture flags for the next encode_picture.  A call made
\* while the flags are set leaves every variable as it is.
ForceIdrOnNext ==
    /\ pc_in = "idle"
    /\ encode_pic_params' =
           [encode_pic_params EXCEPT !.encodePicFlags = FLAG_FORCEIDR_OUTPUT_SPSPPS]
    /\ UNCHANGED <<ring_vars, item_vars, texture_buffer, pc_in, index_in,
                   frame_count, result_in, hw_vars, out_vars, hist_vars,
                   wait_failed, other_vars>>

NextForceIdr ==
    \/ Next
    \/ ForceIdrOnNext

SpecForceIdr == Init /\ [][NextForceIdr]_vars

\* -------------------------------------------------- update_average_bitrate
\* Arguments a caller passes to update_average_bitrate.
Bitrates == {3}
VbvBufferSizes == {None, Some(2)}

\* EncodeParams::set_average_bitrate, the assignments to rcParams.
SetAverageBitrateVbvOnly(rc, bitrate, vbv_buffer_size) ==
    IF vbv_buffer_size # None
    THEN [rc EXCEPT !.vbvBufferSize = Unwrap(vbv_buffer_size),
                    !.vbvInitialDelay = Unwrap(vbv_buffer_size)]
    ELSE rc
SetAverageBitrate(rc, bitrate, vbv_buffer_size) ==
    LET with_bitrate == [rc EXCEPT !.averageBitRate = bitrate, !.maxBitRate = bitrate]
    IN  IF vbv_buffer_size # None
        THEN [with_bitrate EXCEPT !.vbvBufferSize = Unwrap(vbv_buffer_size),
                                  !.vbvInitialDelay = Unwrap(vbv_buffer_size)]
        ELSE with_bitrate

\* update_average_bitrate(&mut self, bitrate, vbv_buffer_size): called between
\* two calls on the producer handle; set_average_bitrate, then the result of
\* reconfigure_encoder.  The model follows one such call per run.
UpdateAverageBitrate ==
    /\ pc_in = "idle"
    /\ call_update = NoUpdate
    /\ \E bitrate \in Bitrates, vbv_buffer_size \in VbvBufferSizes,
          reconfigure_ok \in BOOLEAN :
         /\ rc_params' = SetAverageBitrate(rc_params, bitrate, vbv_buffer_size)
         /\ call_update' =
                [op |-> "update_average_bitrate", bitrate |-> bitrate,
                 vbv_buffer_size |-> vbv_buffer_size]
         /\ result_in' = IF reconfigure_ok THEN "Ok" ELSE "Sys"
    /\ UNCHANGED <<ring_vars, item_vars, texture_buffer, encode_pic_params, pc_in,
                   index_in, frame_count, hw_vars, out_vars, hist_vars,
                   wait_failed, builder_vars, status_vars, version_vars,
                   aspect_vars>>

NextBitrate ==
    \/ Next
    \/ UpdateAverageBitrate

SpecBitrate == Init /\ [][NextBitrate]_vars

\* ------------------------------------------------- wait with a bounded timeout
\* EventObject::wait(timeout_millis) of event/windows.rs when the time runs out
\* before the driver has set the event: WAIT_TIMEOUT, Err(EventObjectWaitTimeout),
\* which the `?` of wait_for_output returns from the closure of read().
WaitForOutput_WaitTimeout ==
    /\ pc_out = "wait"
    /\ ~EventSignalled(index_out)
    /\ pc_out' = "idle"
    /\ result_out' = "EventObjectWaitTimeout"
    /\ UNCHANGED <<ring_vars, item_vars, in_vars, hw_vars, index_out, lock_params,
                   hist_vars, wait_failed, other_vars>>

NextTimeout ==
    \/ Next
    \/ WaitForOutput_WaitTimeout

SpecTimeout == Init /\ [][NextTimeout]_vars

\* ------------------------------------------------------------ EncoderBuilder
pipeline_vars == <<ring_vars, item_vars, in_vars, hw_vars, out_vars, hist_vars,
                   wait_failed, more_vars>>

\* settings/mod.rs: the enums, with the variants the model draws from.
Codec == {"H264", "Hevc"}
CodecProfile == {"Autoselect", "H264Main", "H264High", "HevcMain"}
EncodePreset == {"P1", "P4", "LosslessHp"}

\* What a From<GUID> conversion does with a GUID it has no arm for.
Panic == "panic"

\* impl Into<GUID> for Codec, impl From<GUID> for Codec.
CodecIntoGuid(c) ==
    CASE c = "H264" -> "NV_ENC_CODEC_H264_GUID"
      [] c = "Hevc" -> "NV_ENC_CODEC_HEVC_GUID"
CodecFromGuid(guid) ==
    CASE guid = "NV_ENC_CODEC_H264_GUID" -> "H264"
      [] guid = "NV_ENC_CODEC_HEVC_GUID" -> "Hevc"
      [] OTHER -> Panic

\* impl Into<GUID> for CodecProfile, impl From<GUID> for CodecProfile.
ProfileIntoGuid(p) ==
    CASE p = "Autoselect" -> "NV_ENC_CODEC_PROFILE_AUTOSELECT_GUID"
      [] p = "H264Main" -> "NV_ENC_H264_PROFILE_MAIN_GUID"
      [] p = "H264High" -> "NV_ENC_H264_PROFILE_HIGH_GUID"
      [] p = "HevcMain" -> "NV_ENC_HEVC_PROFILE_MAIN_GUID"
ProfileFromGuid(guid) ==
    CASE guid = "NV_ENC_CODEC_PROFILE_AUTOSELECT_GUID" -> "Autoselect"
      [] guid = "NV_ENC_H264_PROFILE_MAIN_GUID" -> "H264Main"
      [] guid = "NV_ENC_H264_PROFILE_HIGH_GUID" -> "H264High"
      [] guid = "NV_ENC_HEVC_PROFILE_MAIN_GUID" -> "HevcMain"
      [] OTHER -> Panic

\* impl Into<GUID> for EncodePreset, impl From<GUID> for EncodePreset.
PresetIntoGuid(p) ==
    CASE p = "P1" -> "NV_ENC_PRESET_P1_GUID"
      [] p = "P4" -> "NV_ENC_PRESET_P4_GUID"
      [] p = "LosslessHp" -> "NV_ENC_PRESET_LOSSLESS_HP_GUID"
PresetFromGuid(guid) ==
    CASE guid = "NV_ENC_PRESET_P1_GUID" -> "P1"
      [] guid = "NV_ENC_PRESET_P4_GUID" -> "P4"
      [] guid = "NV_ENC_PRESET_LOSSLESS_HP_GUID" -> "LosslessHp"
      [] OTHER -> Panic

\* Codec GUIDs a driver can list: the two the crate has an arm for, and one of
\* a later API version that it has none for.
DriverCodecGuids ==
    {"NV_ENC_CODEC_H264_GUID", "NV_ENC_CODEC_HEVC_GUID", "NV_ENC_CODEC_AV1_GUID"}

\* Profile GUIDs the driver lists for a codec (get_encode_profile_guids).
DriverProfileGuids(codec_guid) ==
    IF codec_guid = "NV_ENC_CODEC_H264_GUID"
    THEN {"NV_ENC_CODEC_PROFILE_AUTOSELECT_GUID", "NV_ENC_H264_PROFILE_MAIN_GUID",
          "NV_ENC_H264_PROFILE_HIGH_GUID"}
    ELSE {"NV_ENC_CODEC_PROFILE_AUTOSELECT_GUID", "NV_ENC_HEVC_PROFILE_MAIN_GUID"}

\* Preset GUIDs the driver lists for a codec (get_encode_preset_guids).
DriverPresetGuids(codec_guid) ==
    IF codec_guid = "NV_ENC_CODEC_H264_GUID"
    THEN {"NV_ENC_PRESET_P1_GUID", "NV_ENC_PRESET_P4_GUID"}
    ELSE {"NV_ENC_PRESET_P1_GUID"}

\* guids.iter().map(|guid| (*guid).into()).collect(), given the conversions of
\* the listed GUIDs: one GUID without an arm makes the whole listing panic.
Collect(converted) ==
    IF Panic \in converted
    THEN [kind |-> "Panic"]
    ELSE [kind |-> "Ok", list |-> converted]

\* supported_codecs, supported_codec_profiles, supported_encode_presets: the
\* driver call fails (Err through `?`), or its answer is collected.
SupportedCodecs(driver_ok) ==
    IF driver_ok
    THEN Collect({CodecFromGuid(guid) : guid \in encode_guids})
    ELSE [kind |-> "Err"]
SupportedCodecProfiles(c, driver_ok) ==
    IF driver_ok
    THEN Collect({ProfileFromGuid(guid) : guid \in DriverProfileGuids(CodecIntoGuid(c))})
    ELSE [kind |-> "Err"]
SupportedEncodePresets(c, driver_ok) ==
    IF driver_ok
    THEN Collect({PresetFromGuid(guid) : guid \in DriverPresetGuids(CodecIntoGuid(c))})
    ELSE [kind |-> "Err"]

\* What a setter returns when its listing did not come back Ok, and where that
\* leaves the builder.
ListingFailed(listed) ==
    /\ result_builder' = IF listed.kind = "Err" THEN "Sys" ELSE "Panic"
    /\ pc_builder' = IF listed.kind = "Err" THEN "building" ELSE "panicked"

\* with_codec(codec)
WithCodec ==
    /\ pc_builder = "building"
    /\ \E c \in Codec, driver_ok \in BOOLEAN :
         LET listed == SupportedCodecs(driver_ok) IN
         /\ call_builder' = [op |-> "with_codec", arg |-> c]
         /\ IF listed.kind # "Ok"
            THEN /\ ListingFailed(listed)
                 /\ UNCHANGED <<codec, with_codec_ok>>
            ELSE IF c \in listed.list
                 THEN /\ codec' = Some(c)
                      /\ result_builder' = "Ok"
                      /\ with_codec_ok' = TRUE
                      /\ UNCHANGED pc_builder
                 ELSE /\ result_builder' = "UnsupportedCodec"
                      /\ UNCHANGED <<codec, with_codec_ok, pc_builder>>
    /\ UNCHANGED <<cfg_windows, encode_guids, profile, preset, extra_options,
                   encode_params, build_calls, with_encode_preset_ok,
                   filler_data_arg, status_vars, pipeline_vars>>

\* with_codec_profile(profile)
WithCodecProfile ==
    /\ pc_builder = "building"
    /\ \E p \in CodecProfile, driver_ok \in BOOLEAN :
         /\ call_builder' = [op |-> "with_codec_profile", arg |-> p]
         /\ IF codec = None
            THEN /\ result_builder' = "CodecNotSet"
                 /\ UNCHANGED <<profile, pc_builder>>
            ELSE LET listed == SupportedCodecProfiles(Unwrap(codec), driver_ok) IN
                 IF listed.kind # "Ok"
                 THEN /\ ListingFailed(listed)
                      /\ UNCHANGED profile
                 ELSE IF p \in listed.list
                      THEN /\ profile' = p
                           /\ result_builder' = "Ok"
                           /\ UNCHANGED pc_builder
                      ELSE /\ result_builder' = "CodecProfileNotSupported"
                           /\ UNCHANGED <<profile, pc_builder>>
    /\ UNCHANGED <<cfg_windows, encode_guids, codec, preset, extra_options,
                   encode_params, build_calls, with_codec_ok,
                   with_encode_preset_ok, filler_data_arg, status_vars,
                   pipeline_vars>>

\* with_encode_preset(preset)
WithEncodePreset ==
    /\ pc_builder = "building"
    /\ \E p \in EncodePreset, driver_ok \in BOOLEAN :
         /\ call_builder' = [op |-> "with_encode_preset", arg |-> p]
         /\ IF codec = None
            THEN /\ result_builder' = "CodecNotSet"
                 /\ UNCHANGED <<preset, with_encode_preset_ok, pc_builder>>
            ELSE LET listed == SupportedEncodePresets(Unwrap(codec), driver_ok) IN
                 IF listed.kind # "Ok"
                 THEN /\ ListingFailed(listed)
                      /\ UNCHANGED <<preset, with_encode_preset_ok>>
                 ELSE IF p \in listed.list
                      THEN /\ preset' = Some(p)
                           /\ result_builder' = "Ok"
                           /\ with_encode_preset_ok' = TRUE
                           /\ UNCHANGED pc_builder
                      ELSE /\ result_builder' = "CodecProfileNotSupported"
                           /\ UNCHANGED <<preset, with_encode_preset_ok, pc_builder>>
    /\ UNCHANGED <<cfg_windows, encode_guids, codec, profile, extra_options,
                   encode_params, build_calls, with_codec_ok, filler_data_arg,
                   status_vars, pipeline_vars>>

\* Frame rates a caller passes to filler_data_insertion.
FrameRates == {None, Some(<<30, 1>>), Some(<<60, 1>>)}

\* filler_data_insertion(frame_rate): ExtraOptions::filler_data_insertion.
FillerDataInsertion ==
    /\ pc_builder = "building"
    /\ \E frame_rate \in FrameRates :
         /\ call_builder' = [op |-> "filler_data_insertion", arg |-> frame_rate]
         /\ extra_options' =
                [filler_data_frame_rate |-> frame_rate,
                 filler_data_enabled |-> IF frame_rate # None THEN 1 ELSE 0]
         /\ filler_data_arg' = Some(frame_rate)
    /\ result_builder' = "Ok"
    /\ UNCHANGED <<cfg_windows, encode_guids, codec, profile, preset, pc_builder,
                   encode_params, build_calls, with_codec_ok,
                   with_encode_preset_ok, status_vars, pipeline_vars>>

\* The two ok_or(..)? tests at the head of build.
BuildPreconditionPresetFirst ==
    IF preset = None THEN "EncodePresetNotSet"
    ELSE IF codec = None THEN "CodecNotSet" ELSE "Ok"
BuildPrecondition ==
    IF codec = None THEN "CodecNotSet"
    ELSE IF preset = None THEN "EncodePresetNotSet" ELSE "Ok"

\* The calls build makes after them, in order, and the Err of each; the last
\* one, EncoderOutput::new, cannot fail.
BuildSteps ==
    <<"EncodeParams::new", "initialize_encoder", "create_texture_buffer",
      "encoder_channel", "EncoderInput::new", "EncoderOutput::new">>
BuildStepError(step) ==
    IF step = "create_texture_buffer" THEN "TextureBufferCreationFailed" ELSE "Sys"

\* NV_ENC_INITIALIZE_PARAMS as EncodeParams::new zeroes it.
InitParamsZeroed == [frameRateNum |-> 0, frameRateDen |-> 0]

\* ExtraOptions::modify_init_params, the frame rate part.
ModifyInitParams(init_params) ==
    IF extra_options.filler_data_frame_rate # None
    THEN LET frame_rate == Unwrap(extra_options.filler_data_frame_rate) IN
         [init_params EXCEPT !.frameRateNum = frame_rate[1],
                             !.frameRateDen = frame_rate[2]]
    ELSE init_params

\* ExtraOptions::modify_h264_encode_config, modify_hevc_encode_config.
ModifyH264EncodeConfig(h264_config) ==
    [h264_config EXCEPT !.enableFillerDataInsertion = extra_options.filler_data_enabled]
ModifyHevcEncodeConfig(hevc_config) ==
    [hevc_config EXCEPT !.enableFillerDataInsertion = extra_options.filler_data_enabled]

\* presetCfg as get_encode_preset_config_ex fills it: the driver's own value
\* of enableFillerDataInsertion in the member of the codec asked for.
PresetConfig(c, driver_filler) ==
    [h264Config |->
         [enableFillerDataInsertion |-> IF c = "H264" THEN driver_filler ELSE 0],
     hevcConfig |->
         [enableFillerDataInsertion |-> IF c = "Hevc" THEN driver_filler ELSE 0]]

\* build_encode_config after get_encode_preset_config_ex: the match on codec,
\* each arm ending with its #[cfg(windows)] block.
BuildEncodeConfig(c, preset_cfg) ==
    IF c = "H264"
    THEN LET h264_config == ModifyH264EncodeConfig(preset_cfg.h264Config) IN
         [preset_cfg EXCEPT !.h264Config =
              IF cfg_windows
              THEN [h264_config EXCEPT !.enableFillerDataInsertion = 0]
              ELSE h264_config]
    ELSE LET hevc_config == ModifyHevcEncodeConfig(preset_cfg.hevcConfig) IN
         [preset_cfg EXCEPT !.hevcConfig =
              IF cfg_windows
              THEN [hevc_config EXCEPT !.enableFillerDataInsertion = 0]
              ELSE hevc_config]

\* EncodeParams::new: the initialize parameters and the encode configuration.
EncodeParamsNew(c, driver_filler) ==
    [reInitEncodeParams |-> ModifyInitParams(InitParamsZeroed),
     encodeConfig |-> BuildEncodeConfig(c, PresetConfig(c, driver_filler))]

\* build(self, width, height, texture_format): self is consumed whatever the
\* result; failing = 0 stands for no call failing.
Build ==
    /\ pc_builder = "building"
    /\ call_builder' = [op |-> "build", arg |-> None]
    /\ pc_builder' = "consumed"
    /\ IF BuildPrecondition # "Ok"
       THEN /\ result_builder' = BuildPrecondition
            /\ UNCHANGED <<encode_params, build_calls>>
       ELSE \E driver_filler \in {0, 1}, failing \in 0 .. (Len(BuildSteps) - 1) :
              /\ build_calls' =
                     SubSeq(BuildSteps, 1, IF failing = 0 THEN Len(BuildSteps) ELSE failing)
              /\ encode_params' =
                     IF failing = 1
                     THEN None
                     ELSE Some(EncodeParamsNew(Unwrap(codec), driver_filler))
              /\ result_builder' =
                     IF failing = 0 THEN "Ok" ELSE BuildStepError(BuildSteps[failing])
    /\ UNCHANGED <<cfg_windows, encode_guids, codec, profile, preset, extra_options,
                   with_codec_ok, with_encode_preset_ok, filler_data_arg,
                   status_vars, pipeline_vars>>

\* A builder fresh from EncoderBuilder::new, on either build target, with a
\* driver that lists any of the codec GUIDs.
BuilderInit ==
    /\ PipelineInit
    /\ AspectBuilt
    /\ NewReturned
    /\ BuilderNew
    /\ pc_builder = "building"
    /\ cfg_windows \in BOOLEAN
    /\ encode_guids \in SUBSET DriverCodecGuids
    /\ StatusIdle

BuilderNext ==
    \/ WithCodec
    \/ WithCodecProfile
    \/ WithEncodePreset
    \/ FillerDataInsertion
    \/ Build

SpecBuilder == BuilderInit /\ [][BuilderNext]_vars

\* ------------------------------------------------------- EncoderBuilder::new
\* u32 arithmetic: a << n drops the n highest of the 32 bits; bitwise or.
ShiftLeft(a, n) == (a % (2 ^ (32 - n))) * (2 ^ n)
RECURSIVE BitOr(_, _)
BitOr(a, b) ==
    IF a = 0 THEN b
    ELSE IF b = 0 THEN a
    ELSE (IF a % 2 = 1 \/ b % 2 = 1 THEN 1 ELSE 0) + 2 * BitOr(a \div 2, b \div 2)

\* crate::sys::NVENCAPI_MAJOR_VERSION, NVENCAPI_MINOR_VERSION of the build.
NVENCAPI_MAJOR_VERSION == api_version[1]
NVENCAPI_MINOR_VERSION == api_version[2]

\* is_version_supported(version)
IsVersionSupportedStrictly(version) ==
    LET this_version == BitOr(ShiftLeft(NVENCAPI_MAJOR_VERSION, 4), NVENCAPI_MINOR_VERSION)
    IN  version > this_version
IsVersionSupported(version) ==
    LET this_version == BitOr(ShiftLeft(NVENCAPI_MAJOR_VERSION, 4), NVENCAPI_MINOR_VERSION)
    IN  IF version >= this_version THEN TRUE ELSE FALSE

\* EncoderBuilder::new(device): Library::load()?, get_max_supported_version()?,
\* the version test, RawEncoder::new(..)?, which opens the encode session.
EncoderBuilder_New ==
    /\ pc_new = "calling"
    /\ pc_new' = "returned"
    /\ \E load_ok, version_ok, raw_encoder_ok \in BOOLEAN :
         IF ~load_ok
         THEN /\ calls_new' = <<"Library::load">>
              /\ result_new' = "LibraryLoadingFailed"
         ELSE IF ~version_ok
         THEN /\ calls_new' = <<"Library::load", "get_max_supported_version">>
              /\ result_new' = "Sys"
         ELSE IF ~IsVersionSupported(max_supported_version)
         THEN /\ calls_new' = <<"Library::load", "get_max_supported_version">>
              /\ result_new' = "UnsupportedVersion"
         ELSE /\ calls_new' = <<"Library::load", "get_max_supported_version",
                                "RawEncoder::new">>
              /\ result_new' = IF raw_encoder_ok THEN "Ok" ELSE "Sys"
    /\ UNCHANGED <<api_version, max_supported_version, builder_vars, status_vars,
                   ring_vars, item_vars, in_vars, hw_vars, out_vars, hist_vars,
                   wait_failed, bitrate_vars, aspect_vars>>

\* Compiled API versions and driver versions the check draws from.
ApiVersions == {<<9, 1>>, <<10, 0>>, <<11, 1>>, <<12, 2>>}
DriverVersions == 0 .. MaxDriverVersion

\* EncoderBuilder::new is about to be called, for any build and any driver.
VersionInit ==
    /\ PipelineInit
    /\ AspectBuilt
    /\ BuilderNew
    /\ pc_builder = "consumed"
    /\ cfg_windows = TRUE
    /\ encode_guids = {}
    /\ StatusIdle
    /\ api_version \in ApiVersions
    /\ max_supported_version \in DriverVersions
    /\ pc_new = "calling"
    /\ result_new = "none"
    /\ calls_new = <<>>

VersionNext == EncoderBuilder_New

SpecVersion == VersionInit /\ [][VersionNext]_vars

\* ------------------------------------------------------ display aspect ratio
\* crate::util::gcd
GcdOne(a, b) == 1
RECURSIVE Gcd(_, _)
Gcd(a, b) == IF b = 0 THEN a ELSE Gcd(b, a % b)

\* Display aspect ratios a caller passes to display_aspect_ratio.
AspectRatios == {None, Some(<<16, 9>>), Some(<<4, 3>>)}

\* display_aspect_ratio(display_aspect_ratio): the option is stored as given.
DisplayAspectRatio ==
    /\ pc_aspect = "building"
    /\ \E ratio \in AspectRatios : display_aspect_ratio' = ratio
    /\ UNCHANGED <<dar_params, pc_aspect, version_vars, bitrate_vars, builder_vars,
                   status_vars, ring_vars, item_vars, in_vars, hw_vars, out_vars,
                   hist_vars, wait_failed>>

\* ExtraOptions::modify_init_params, the display aspect ratio part, called by
\* EncodeParams::new once encodeWidth and encodeHeight are set; the division
\* by a gcd of 0 panics.
ModifyInitParamsAspect ==
    /\ pc_aspect = "building"
    /\ IF display_aspect_ratio # None
       THEN /\ dar_params' = [dar_params EXCEPT
                                   !.darWidth = Unwrap(display_aspect_ratio)[1],
                                   !.darHeight = Unwrap(display_aspect_ratio)[2]]
            /\ pc_aspect' = "built"
       ELSE LET width == dar_params.encodeWidth
                height == dar_params.encodeHeight
                gcd == Gcd(width, height)
            IN  IF gcd = 0
                THEN /\ pc_aspect' = "panicked"
                     /\ UNCHANGED dar_params
                ELSE /\ dar_params' = [dar_params EXCEPT
                                            !.darWidth = width \div gcd,
                                            !.darHeight = height \div gcd]
                     /\ pc_aspect' = "built"
    /\ UNCHANGED <<display_aspect_ratio, version_vars, bitrate_vars, builder_vars,
                   status_vars, ring_vars, item_vars, in_vars, hw_vars, out_vars,
                   hist_vars, wait_failed>>

\* Widths and heights the check draws from.
Dims == 0 .. MaxDim

\* EncodeParams::new has zeroed the parameters and set encodeWidth and
\* encodeHeight to the width and height build was given; the builder still
\* takes display_aspect_ratio calls.
AspectInit ==
    /\ PipelineInit
    /\ NewReturned
    /\ BuilderNew
    /\ pc_builder = "consumed"
    /\ cfg_windows = TRUE
    /\ encode_guids = {}
    /\ StatusIdle
    /\ display_aspect_ratio = None
    /\ \E width, height \in Dims :
          dar_params = [encodeWidth |-> width, encodeHeight |-> height,
                         darWidth |-> 0, darHeight |-> 0]
    /\ pc_aspect = "building"

AspectNext ==
    \/ DisplayAspectRatio
    \/ ModifyInitParamsAspect

SpecAspect == AspectInit /\ [][AspectNext]_vars

\* ------------------------------------------------- status conversion (error.rs)
\* sys::NVENCSTATUS: the variants in the order of their discriminants, as the
\* pairs of tests::equiv_to_nvencstatus and nv_enc_success_is_zero give them.
NVENCSTATUS ==
    <<"NV_ENC_SUCCESS",
      "NV_ENC_ERR_NO_ENCODE_DEVICE", "NV_ENC_ERR_UNSUPPORTED_DEVICE",
      "NV_ENC_ERR_INVALID_ENCODERDEVICE", "NV_ENC_ERR_INVALID_DEVICE",
      "NV_ENC_ERR_DEVICE_NOT_EXIST", "NV_ENC_ERR_INVALID_PTR",
      "NV_ENC_ERR_INVALID_EVENT", "NV_ENC_ERR_INVALID_PARAM",
      "NV_ENC_ERR_INVALID_CALL", "NV_ENC_ERR_OUT_OF_MEMORY",
      "NV_ENC_ERR_ENCODER_NOT_INITIALIZED", "NV_ENC_ERR_UNSUPPORTED_PARAM",
      "NV_ENC_ERR_LOCK_BUSY", "NV_ENC_ERR_NOT_ENOUGH_BUFFER",
      "NV_ENC_ERR_INVALID_VERSION", "NV_ENC_ERR_MAP_FAILED",
      "NV_ENC_ERR_NEED_MORE_INPUT", "NV_ENC_ERR_ENCODER_BUSY",
      "NV_ENC_ERR_EVENT_NOT_REGISTERD", "NV_ENC_ERR_GENERIC",
      "NV_ENC_ERR_INCOMPATIBLE_CLIENT_KEY", "NV_ENC_ERR_UNIMPLEMENTED",
      "NV_ENC_ERR_RESOURCE_REGISTER_FAILED", "NV_ENC_ERR_RESOURCE_NOT_REGISTERED",
      "NV_ENC_ERR_RESOURCE_NOT_MAPPED">>

\* NonZeroNvencStatus: the variants in declaration order.
NonZeroNvencStatus ==
    <<
      "NV_ENC_ERR_NO_ENCODE_DEVICE", "NV_ENC_ERR_UNSUPPORTED_DEVICE",
      "NV_ENC_ERR_INVALID_ENCODERDEVICE", "NV_ENC_ERR_INVALID_DEVICE",
      "NV_ENC_ERR_DEVICE_NOT_EXIST", "NV_ENC_ERR_INVALID_PTR",
      "NV_ENC_ERR_INVALID_EVENT", "NV_ENC_ERR_INVALID_PARAM",
      "NV_ENC_ERR_INVALID_CALL", "NV_ENC_ERR_OUT_OF_MEMORY",
      "NV_ENC_ERR_ENCODER_NOT_INITIALIZED", "NV_ENC_ERR_UNSUPPORTED_PARAM",
      "NV_ENC_ERR_LOCK_BUSY", "NV_ENC_ERR_NOT_ENOUGH_BUFFER",
      "NV_ENC_ERR_INVALID_VERSION", "NV_ENC_ERR_MAP_FAILED",
      "NV_ENC_ERR_NEED_MORE_INPUT", "NV_ENC_ERR_ENCODER_BUSY",
      "NV_ENC_ERR_EVENT_NOT_REGISTERD", "NV_ENC_ERR_GENERIC",
      "NV_ENC_ERR_INCOMPATIBLE_CLIENT_KEY", "NV_ENC_ERR_UNIMPLEMENTED",
      "NV_ENC_ERR_RESOURCE_REGISTER_FAILED", "NV_ENC_ERR_RESOURCE_NOT_REGISTERED",
      "NV_ENC_ERR_RESOURCE_NOT_MAPPED">>

\* Position of a variant in its enum, counted from 1.
IndexOf(enum, variant) == CHOOSE k \in 1 .. Len(enum) : enum[k] = variant

\* #[repr(i32)] discriminants: NVENCSTATUS starts at NV_ENC_SUCCESS = 0,
\* NonZeroNvencStatus at NV_ENC_ERR_NO_ENCODE_DEVICE = 1.
NvencStatusDiscriminant(status) == IndexOf(NVENCSTATUS, status) - 1
NonZeroDiscriminantFromZero(e) == IndexOf(NonZeroNvencStatus, e) - 1
NonZeroDiscriminant(e) == IndexOf(NonZeroNvencStatus, e)

\* std::mem::transmute of an i32 into an enum: the variant with that
\* discriminant; with no such variant the behaviour is undefined, and the
\* outcome is any variant or no valid value at all.
Invalid == "invalid"
TransmuteToNonZero(d) ==
    LET same == {e \in Range(NonZeroNvencStatus) : NonZeroDiscriminant(e) = d} IN
    IF same # {} THEN same ELSE Range(NonZeroNvencStatus) \cup {Invalid}
TransmuteToNvencStatus(d) ==
    LET same == {st \in Range(NVENCSTATUS) : NvencStatusDiscriminant(st) = d} IN
    IF same # {} THEN same ELSE Range(NVENCSTATUS) \cup {Invalid}

\* NonZeroNvencStatus::from_nvenc_status: the results the call can give.
FromNvencStatus(status) ==
    IF status = "NV_ENC_SUCCESS"
    THEN {None}
    ELSE {Some(e) : e \in TransmuteToNonZero(NvencStatusDiscriminant(status))}

\* NonZeroNvencStatus::into_nvenc_status: the results the call can give.
IntoNvencStatus(e) ==
    IF e = Invalid
    THEN Range(NVENCSTATUS) \cup {Invalid}
    ELSE TransmuteToNvencStatus(NonZeroDiscriminant(e))

\* NvEncError::from_nvenc_status: from_nvenc_status(status).map(NvEncError::Sys).
NvEncError_FromNvencStatus(status) ==
    {IF r = None THEN None ELSE Some(<<"Sys", Unwrap(r)>>) : r \in FromNvencStatus(status)}

\* NvEncError::into_nvenc_status: Some(status) for Sys(status), None otherwise.
NvEncError_IntoNvencStatus(err) ==
    IF err[1] = "Sys" THEN {Some(st) : st \in IntoNvencStatus(err[2])} ELSE {None}

\* from_nvenc_status(status_arg), then into_nvenc_status on what it returned.
Status_FromThenInto ==
    /\ \E r \in FromNvencStatus(status_arg) :
         \E back \in (IF r = None THEN {None}
                      ELSE {Some(st) : st \in IntoNvencStatus(Unwrap(r))}) :
             status_trip' = [op |-> "from_into", first |-> r, second |-> back]
    /\ UNCHANGED <<status_arg, nonzero_arg, builder_vars, pipeline_vars>>

\* nonzero_arg.into_nvenc_status(), then from_nvenc_status on what it returned.
Status_IntoThenFrom ==
    /\ \E st \in IntoNvencStatus(nonzero_arg) :
         \E back \in (IF st = Invalid THEN {None, Some(Invalid)}
                      ELSE FromNvencStatus(st)) :
             status_trip' = [op |-> "into_from", first |-> Some(st), second |-> back]
    /\ UNCHANGED <<status_arg, nonzero_arg, builder_vars, pipeline_vars>>

\* NvEncError::from_nvenc_status(status_arg), then NvEncError::into_nvenc_status.
Status_ErrorFromThenInto ==
    /\ \E r \in NvEncError_FromNvencStatus(status_arg) :
         \E back \in (IF r = None THEN {None}
                      ELSE NvEncError_IntoNvencStatus(Unwrap(r))) :
             status_trip' = [op |-> "error_from_into", first |-> r, second |-> back]
    /\ UNCHANGED <<status_arg, nonzero_arg, builder_vars, pipeline_vars>>

\* Any status the driver can return, any NonZeroNvencStatus a caller can hold.
StatusInit ==
    /\ PipelineInit
    /\ AspectBuilt
    /\ NewReturned
    /\ BuilderNew
    /\ pc_builder = "consumed"
    /\ cfg_windows = TRUE
    /\ encode_guids = {}
    /\ status_arg \in Range(NVENCSTATUS)
    /\ nonzero_arg \in Range(NonZeroNvencStatus)
    /\ status_trip = NoTrip

StatusNext ==
    \/ Status_FromThenInto
    \/ Status_IntoThenFrom
    \/ Status_ErrorFromThenInto

SpecStatus == StatusInit /\ [][StatusNext]_vars


\* ------------------------------------------------------------------ claims
Populating == pc_in \in {"frame_populate", "eos_populate"}
\* Retrieval calls that ended in an error other than EndOfStream.
RetrievalFaults ==
    faults["wait"] + faults["lock_bitstream"] + faults["consume_output"]
        + faults["unlock_bitstream"] + faults["unmap_input"]

\* C1 (Ordering): the frames handed to the caller of wait_for_output are frames
\* the driver accepted, they are handed over in submission order whatever the
\* order in which the driver signals the slots, and as long as no retrieval
\* call has failed they are exactly the first accepted frames F1, F2, ...
C1_Ordering ==
    /\ \A k \in 1 .. Len(delivered) : delivered[k] \in Range(accepted)
    /\ \A j, k \in 1 .. Len(delivered) : j < k => delivered[j] < delivered[k]
    /\ RetrievalFaults = 0 => delivered = SubSeq(accepted, 1, Len(delivered))

\* Frames A = 1 and B = 2 were accepted, the driver signalled B before A, and
\* the two retrievals delivered A then B.
C1_Witness ==
    /\ Len(signalled) >= 2
    /\ signalled[1] = 2
    /\ signalled[2] = 1
    /\ Len(delivered) >= 2
    /\ delivered[1] = 1
    /\ delivered[2] = 2

\* C2 (Backpressure): no step changes what the producer wrote into a slot that
\* is in flight (its staging texture, mapped input, end-of-stream flag), and
\* while Capacity indices are in flight no step lets the writer past its slot
\* acquisition or publishes an index: a blocked encode_frame stays blocked
\* until a release.
C2_Backpressure ==
    [][ /\ \A i \in Range(in_flight) :
              /\ texture_buffer'[i] = texture_buffer[i]
              /\ mapped_input'[i] = mapped_input[i]
              /\ end_of_stream'[i] = end_of_stream[i]
        /\ Len(in_flight) = Capacity =>
              /\ write_count' = write_count
              /\ ~Populating'
              /\ pc_in = "frame_acquire" => pc_in' = "frame_acquire"
      ]_vars

\* Capacity frames were accepted, none was retrieved, and the next encode_frame
\* call is blocked in the writer.
C2_Witness ==
    /\ Len(accepted) = Capacity
    /\ Len(in_flight) = Capacity
    /\ delivered = <<>>
    /\ pc_out = "idle"
    /\ pc_in = "frame_acquire"

\* C3 (Slot reuse safety): whenever a write closure (encode_frame's or
\* end_encode's) runs on slot index_in, that slot is FREE: it is not in flight,
\* not in the ordering channel and not held by the reader.
C3_SlotReuseSafety ==
    Populating =>
        /\ slot_state[index_in] = "FREE"
        /\ index_in \notin Range(in_flight)
        /\ index_in \notin Range(channel)
        /\ ~(pc_out # "idle" /\ index_out = index_in)

\* The closure of encode_frame runs on a slot that was used before.
C3_Witness ==
    /\ pc_in = "frame_populate"
    /\ write_count >= Capacity
    /\ mapped_input[index_in] # Null

\* C4 (Bounded depth): the indices in flight are distinct slots and never more
\* than the ring capacity, which is the number of staging textures of build.
C4_BoundedDepth ==
    /\ Len(in_flight) <= Capacity
    /\ Len(in_flight) <= Cardinality(DOMAIN texture_buffer)
    /\ Cardinality(Range(in_flight)) = Len(in_flight)

\* The ring is full.
C4_Witness == Len(in_flight) = Capacity /\ Len(channel) = Capacity

\* C5 (No input reuse before the hardware is done): a step that overwrites
\* staging subresource i happens only when slot i is FREE and no accepted
\* submission reading the mapped input of subresource i is pending.
C5_NoInputReuse ==
    [][ \A i \in DOMAIN texture_buffer :
            texture_buffer'[i] # texture_buffer[i] =>
                /\ i \in Slots
                /\ slot_state[i] = "FREE"
                /\ \A job \in hw_pending : job.inputBuffer # MapInput(i)
      ]_vars

\* A frame has been copied over an earlier accepted frame in the same
\* subresource.
C5_Witness ==
    /\ pc_in = "frame_submit"
    /\ texture_buffer[index_in] = Capacity + 1
    /\ accepted = [k \in 1 .. Capacity |-> k]


\* C6 (Submission failure rollback), as claimed: when encode_frame returns the
\* error of encode_picture, the slot it used is FREE and its index is neither
\* in flight nor in the ordering channel nor held by the reader.
C6_SubmitFailureRollback ==
    (pc_in = "idle" /\ result_in = "EncodePictureError") =>
        /\ slot_state[index_in] = "FREE"
        /\ index_in \notin Range(in_flight)
        /\ index_in \notin Range(channel)
        /\ ~(pc_out # "idle" /\ index_out = index_in)

\* C7 (End-of-stream): wait_for_output returns EndOfStream at most once, only
\* for the slot of the terminal submission of a dropped producer, after every
\* earlier index has left the channel, and without a lock_bitstream or
\* unlock_bitstream call; a slot flagged end-of-stream never reaches the lock,
\* consume, unlock or unmap step.
C7_EndOfStream ==
    /\ eos_returns <= 1
    /\ result_out = "EndOfStream" =>
          /\ eos_returns = 1
          /\ end_of_stream[index_out]
          /\ pc_in = "dropped"
          /\ index_out = (write_count - 1) % Capacity
          /\ channel = <<>>
          /\ calls_out = NoCalls
          /\ ~bitstream_locked[index_out]
    /\ pc_out \in {"lock", "consume", "unlock", "unmap"} => ~end_of_stream[index_out]
    /\ eos_returns = 1 => result_out = "EndOfStream"

\* The consumer got EndOfStream after it had been handed a frame.
C7_Witness ==
    /\ result_out = "EndOfStream"
    /\ pc_out = "idle"
    /\ Len(delivered) >= 1

\* The consumer cannot take a step: the channel is empty, or the event of the
\* slot it waits on is not signalled.
ConsumerBlocked ==
    \/ pc_out = "idle" /\ channel = <<>>
    \/ pc_out = "wait" /\ ~event_obj[index_out]

\* C8 (Producer drop), as claimed: once the producer has been dropped with its
\* end-of-stream submission accepted, the driver has signalled every accepted
\* submission and no wait has failed, a consumer that keeps calling
\* wait_for_output is blocked only after it has observed EndOfStream.
C8_ProducerDropDrains ==
    (/\ pc_in = "dropped"
     /\ result_in = "Ok"
     /\ hw_pending = {}
     /\ faults["wait"] = 0
     /\ ConsumerBlocked) => eos_returns = 1

\* C9 (Release-on-error), as claimed: when the caller's consume closure raises,
\* unlock_bitstream and unmap_input_resource have each been called once for the
\* slot and the slot is FREE.
C9_ReleaseOnConsumeError ==
    (pc_out = "idle" /\ result_out = "Panic") =>
        /\ calls_out.unlock = 1
        /\ calls_out.unmap = 1
        /\ slot_state[index_out] = "FREE"

\* C10 (No leak on lock/unlock failure), as claimed: when lock_bitstream or
\* unlock_bitstream fails, the error is returned and the input mapped for the
\* slot has still been unmapped.
C10_NoLeakOnLockFailure ==
    (pc_out = "idle"
     /\ result_out \in {"LockBitstreamError", "UnlockBitstreamError"}) =>
        /\ calls_out.unmap = 1
        /\ mapped_input[index_out] \notin mapped_resources

\* C11 (Completion-wait failure): a step in which a completion wait fails ends
\* the wait_for_output call with EventObjectWaitError for the slot it had
\* dequeued; from then on that slot stays SUBMITTED and in flight, and no step
\* ever hands it to a write closure of the producer.
C11_WaitFailureStalls ==
    [][ /\ wait_failed' # wait_failed =>
              /\ pc_out' = "idle"
              /\ result_out' = "EventObjectWaitError"
              /\ wait_failed' = wait_failed \cup {index_out}
        /\ \A i \in wait_failed :
              /\ i \in wait_failed'
              /\ slot_state[i] = "SUBMITTED" /\ slot_state'[i] = "SUBMITTED"
              /\ i \in Range(in_flight')
              /\ ~(Populating /\ index_in = i)
              /\ ~(Populating' /\ index_in' = i)
      ]_vars

\* A wait failed on a slot, the round robin has come back to that slot, and
\* the producer is blocked in the writer: the pipeline has stalled.
C11_Witness ==
    /\ Writer_NextIndex \in wait_failed
    /\ pc_in = "frame_acquire"
    /\ write_count >= Capacity

\* The consumer is inside wait_for_output on slot i.
ConsumerHolds(i) ==
    /\ pc_out \in {"wait", "lock", "consume", "unlock", "unmap"}
    /\ index_out = i

\* C12 (Slot mutual exclusion): a write closure never runs on the slot the
\* consumer is waiting on, locking or reading; two pending submissions never
\* name the same completion event, output buffer or mapped input; and a slot
\* named by a pending submission is neither FREE nor being populated.
C12_SlotMutualExclusion ==
    /\ Populating => ~ConsumerHolds(index_in)
    /\ \A j1, j2 \in hw_pending :
          j1 # j2 =>
              /\ j1.completionEvent # j2.completionEvent
              /\ (j1.encodePicFlags # FLAG_EOS /\ j2.encodePicFlags # FLAG_EOS) =>
                    /\ j1.outputBitstream # j2.outputBitstream
                    /\ j1.inputBuffer # j2.inputBuffer
    /\ \A job \in hw_pending :
          /\ slot_state[Deref(job.completionEvent)] # "FREE"
          /\ ~(Populating /\ index_in = Deref(job.completionEvent))

\* The producer populates one slot while the consumer reads a second one and
\* the hardware still works on a third.
C12_Witness ==
    /\ pc_in = "frame_populate"
    /\ pc_out = "consume"
    /\ index_out # index_in
    /\ \E job \in hw_pending :
          Deref(job.completionEvent) \notin {index_in, index_out}

\* C13 (Round-robin slot selection): the slot a write closure is given, the
\* staging subresource it writes and the index it publishes are all
\* write_count mod Capacity, and publishing advances write_count by one: the
\* slots are used in the order 0, 1, ..., Capacity-1, 0, ...
C13_RoundRobin ==
    [][ /\ Populating' => index_in' = write_count' % Capacity
        /\ write_count' # write_count =>
              /\ write_count' = write_count + 1
              /\ channel' = Append(channel, write_count % Capacity)
        /\ \A i \in DOMAIN texture_buffer :
              texture_buffer'[i] # texture_buffer[i] => i = write_count % Capacity
      ]_vars

\* The round robin has wrapped: the closure of encode_frame is given slot 0 for
\* the second time.
C13_Witness ==
    /\ pc_in = "frame_populate"
    /\ write_count = Capacity
    /\ index_in = 0

\* C14 (Slot lifecycle): every slot is FREE, SUBMITTED or LOCKED; a slot changes
\* state only FREE -> SUBMITTED when the producer publishes it, SUBMITTED ->
\* LOCKED when the consumer that dequeued it has waited successfully, LOCKED ->
\* FREE when the consumer releases it, or SUBMITTED -> FREE for a refused
\* submission; and a bitstream is locked only for a LOCKED slot.
C14_SlotLifecycle ==
    [][ \A i \in Slots :
          /\ slot_state[i] \in {"FREE", "SUBMITTED", "LOCKED"}
          /\ slot_state'[i] \in {"FREE", "SUBMITTED", "LOCKED"}
          /\ bitstream_locked'[i] => slot_state'[i] = "LOCKED"
          /\ slot_state'[i] # slot_state[i] =>
                \/ /\ slot_state[i] = "FREE" /\ slot_state'[i] = "SUBMITTED"
                   /\ Populating /\ index_in = i
                   /\ write_count' = write_count + 1
                \/ /\ slot_state[i] = "SUBMITTED" /\ slot_state'[i] = "LOCKED"
                   /\ pc_out = "wait" /\ index_out = i
                   /\ faults' = faults
                \/ /\ slot_state[i] = "LOCKED" /\ slot_state'[i] = "FREE"
                   /\ pc_out = "unmap" /\ index_out = i
                   /\ result_out' = "Ok"
                \/ /\ slot_state[i] = "SUBMITTED" /\ slot_state'[i] = "FREE"
                   /\ i \in rejected'
      ]_vars

\* A slot has gone through the whole cycle and is SUBMITTED a second time
\* while another slot is LOCKED.
C14_Witness ==
    /\ write_count > Capacity
    /\ slot_state[0] = "SUBMITTED"
    /\ \E i \in Slots : slot_state[i] = "LOCKED" /\ bitstream_locked[i]

\* C15 (Publish never fails): the ordering channel never holds more than
\* Capacity indices, and whenever a write closure runs, and so a publish is
\* about to happen, the channel has room for one more index.
C15_PublishNeverFails ==
    /\ Len(channel) <= Capacity
    /\ Populating => Len(channel) < Capacity

\* A publish is about to fill the last place of the channel.
C15_Witness ==
    /\ Populating
    /\ Len(channel) = Capacity - 1

\* C16 (Consumer drop): once the consumer handle is dropped it stays dropped,
\* and neither the drop itself nor any later step releases a slot that is
\* SUBMITTED, takes its index out of the channel or of the indices in flight,
\* or unmaps its input.
C16_ConsumerDropLeaks ==
    [][ /\ pc_out = "dropped" => pc_out' = "dropped"
        /\ pc_out' = "dropped" =>
          /\ \A k \in 1 .. Len(channel) : k <= Len(channel') /\ channel'[k] = channel[k]
          /\ \A k \in 1 .. Len(in_flight) :
                k <= Len(in_flight') /\ in_flight'[k] = in_flight[k]
          /\ \A i \in Slots :
                slot_state[i] = "SUBMITTED" =>
                    /\ slot_state'[i] = "SUBMITTED"
                    /\ mapped_input[i] \in mapped_resources =>
                          mapped_input'[i] \in mapped_resources'
      ]_vars

\* The consumer was dropped, every slot is SUBMITTED with its input mapped, all
\* the hardware work is done, and the producer is blocked in the writer.
C16_Witness ==
    /\ pc_out = "dropped"
    /\ \A i \in Slots :
          slot_state[i] = "SUBMITTED" /\ mapped_input[i] \in mapped_resources
    /\ hw_pending = {}
    /\ pc_in = "frame_acquire"

\* build has returned.
BuildReturned == pc_builder = "consumed" /\ call_builder.op = "build"

\* C17 (Build preconditions): when build returns and no with_codec call has
\* returned Ok, its result is CodecNotSet; when a with_codec call has returned
\* Ok but no with_encode_preset call has, its result is EncodePresetNotSet; in
\* both cases build has made none of its calls: no encode parameters, no
\* texture buffer, no ring, no producer or consumer handle.
C17_BuildPreconditions ==
    BuildReturned =>
        /\ ~with_codec_ok =>
              /\ result_builder = "CodecNotSet"
              /\ build_calls = <<>>
              /\ encode_params = None
        /\ (with_codec_ok /\ ~with_encode_preset_ok) =>
              /\ result_builder = "EncodePresetNotSet"
              /\ build_calls = <<>>
              /\ encode_params = None
        /\ result_builder \in {"CodecNotSet", "EncodePresetNotSet"} =>
              "encoder_channel" \notin Range(build_calls)

\* build was called on a builder with a codec, after a with_encode_preset call
\* that was refused, and returned EncodePresetNotSet.
C17_Witness ==
    /\ BuildReturned
    /\ with_codec_ok
    /\ ~with_encode_preset_ok
    /\ preset = None
    /\ result_builder = "EncodePresetNotSet"

\* C18 (Builder setters reject without side effect), as claimed: a with_codec
\* call for a codec whose GUID the driver does not list, the driver call itself
\* having succeeded, returns UnsupportedCodec; with_codec_profile and
\* with_encode_preset return CodecNotSet when no codec is set and an error
\* when the driver does not list the value for the current codec; and a setter
\* that does not return Ok leaves codec, profile and preset as they were.
C18_SettersRejectCleanly ==
    [][ pc_builder = "building" =>
          LET op == call_builder'.op
              arg == call_builder'.arg
          IN
          /\ (/\ op = "with_codec"
              /\ CodecIntoGuid(arg) \notin encode_guids
              /\ result_builder' # "Sys") => result_builder' = "UnsupportedCodec"
          /\ (op \in {"with_codec_profile", "with_encode_preset"} /\ codec = None) =>
                result_builder' = "CodecNotSet"
          /\ (/\ op = "with_codec_profile"
              /\ codec # None
              /\ ProfileIntoGuid(arg) \notin
                     DriverProfileGuids(CodecIntoGuid(Unwrap(codec)))) =>
                result_builder' # "Ok"
          /\ (/\ op = "with_encode_preset"
              /\ codec # None
              /\ PresetIntoGuid(arg) \notin
                     DriverPresetGuids(CodecIntoGuid(Unwrap(codec)))) =>
                result_builder' # "Ok"
          /\ (/\ op \in {"with_codec", "with_codec_profile", "with_encode_preset"}
              /\ result_builder' # "Ok") =>
                UNCHANGED <<codec, profile, preset>>
      ]_vars

\* C19 (Filler data option), as claimed: when build has succeeded, the encode
\* configuration of the chosen codec has enableFillerDataInsertion = 1 and the
\* initialize parameters carry the frame rate if the last filler_data_insertion
\* call passed Some(rate), and enableFillerDataInsertion = 0 if that call
\* passed None or was never made.
C19_FillerDataOption ==
    (BuildReturned /\ result_builder = "Ok") =>
        LET params == Unwrap(encode_params)
            codec_config == IF Unwrap(codec) = "H264"
                            THEN params.encodeConfig.h264Config
                            ELSE params.encodeConfig.hevcConfig
        IN  IF filler_data_arg # None /\ Unwrap(filler_data_arg) # None
            THEN /\ codec_config.enableFillerDataInsertion = 1
                 /\ <<params.reInitEncodeParams.frameRateNum,
                      params.reInitEncodeParams.frameRateDen>>
                        = Unwrap(Unwrap(filler_data_arg))
            ELSE codec_config.enableFillerDataInsertion = 0

\* C20 (Status round trip): from_nvenc_status of a non-success status s gives
\* Some(e), e being the variant of the same name, and e.into_nvenc_status()
\* gives s back; into_nvenc_status of e followed by from_nvenc_status gives
\* Some(e); from_nvenc_status gives None for NV_ENC_SUCCESS and for nothing
\* else; and the same round trip holds through NvEncError::Sys.
C20_StatusRoundTrip ==
    /\ status_trip.op = "from_into" =>
          IF status_arg = "NV_ENC_SUCCESS"
          THEN status_trip.first = None
          ELSE /\ status_trip.first = Some(status_arg)
               /\ status_trip.second = Some(status_arg)
    /\ status_trip.op = "into_from" =>
          /\ status_trip.first = Some(nonzero_arg)
          /\ status_trip.second = Some(nonzero_arg)
    /\ status_trip.op = "error_from_into" =>
          IF status_arg = "NV_ENC_SUCCESS"
          THEN status_trip.first = None
          ELSE /\ status_trip.first = Some(<<"Sys", status_arg>>)
               /\ status_trip.second = Some(status_arg)

\* The last status, NV_ENC_ERR_RESOURCE_NOT_MAPPED, has made the round trip.
C20_Witness ==
    /\ status_trip.op = "from_into"
    /\ status_arg = NVENCSTATUS[Len(NVENCSTATUS)]
    /\ status_trip.first = Some(NonZeroNvencStatus[Len(NonZeroNvencStatus)])
    /\ status_trip.second = Some(status_arg)

\* The picture flags force_idr_on_next sets are set.
IdrFlagsSet == encode_pic_params.encodePicFlags = FLAG_FORCEIDR_OUTPUT_SPSPPS

\* C21 (Force-IDR is one-shot): the FORCEIDR and OUTPUT_SPSPPS flags become set
\* only by a force_idr_on_next call, made between two calls on the producer
\* handle; once set they stay set until a frame is accepted (or the handle is
\* dropped), so the next accepted frame carries them; a frame that is accepted
\* carries the flags as they are at its encode_picture call, and with its
\* acceptance the flags are reset to 0.
C21_ForceIdrOneShot ==
    [][ /\ (~IdrFlagsSet /\ IdrFlagsSet') =>
              /\ pc_in = "idle" /\ pc_in' = "idle"
              /\ UNCHANGED <<frame_count, accepted, hw_pending, ring_vars>>
        /\ (IdrFlagsSet /\ ~IdrFlagsSet') =>
              \/ accepted' = Append(accepted, frame_count)
              \/ pc_in = "eos_populate"
        /\ accepted' # accepted =>
              /\ \E job \in hw_pending' \ hw_pending :
                    /\ job.inputTimeStamp = frame_count
                    /\ job.encodePicFlags = encode_pic_params.encodePicFlags
                    /\ job.encodePicFlags \in {FLAG_NONE, FLAG_FORCEIDR_OUTPUT_SPSPPS}
              /\ encode_pic_params'.encodePicFlags = FLAG_NONE
      ]_vars

\* force_idr_on_next was called once, before the first frame; the first frame
\* was accepted with the flags and the second one without them, and both are
\* still with the hardware.
C21_Witness ==
    /\ accepted = <<1, 2>>
    /\ \E j1, j2 \in hw_pending :
          /\ j1.inputTimeStamp = 1
          /\ j1.encodePicFlags = FLAG_FORCEIDR_OUTPUT_SPSPPS
          /\ j2.inputTimeStamp = 2
          /\ j2.encodePicFlags = FLAG_NONE

\* C22 (Submit-before-publish), as claimed: an index is in the ordering
\* channel or in the hands of the consumer only after the encode_picture call
\* for its slot has returned success: never while the producer is between the
\* publish and that call, and never when the driver has refused the call.
C22_SubmitBeforePublish ==
    /\ pc_in \in {"frame_submit", "eos_submit"} =>
          /\ index_in \notin Range(channel)
          /\ ~ConsumerHolds(index_in)
    /\ \A i \in rejected :
          /\ i \notin Range(channel)
          /\ ~ConsumerHolds(i)

\* C23 (Release-after-cleanup): a slot that is not flagged end-of-stream
\* becomes FREE only in the step that ends the consumer's call on it with Ok:
\* lock_bitstream, unlock_bitstream and unmap_input_resource have each been
\* called once for it, its bitstream is unlocked and its input unmapped; and
\* the producer is handed a slot for writing only when that slot is FREE.
C23_ReleaseAfterCleanup ==
    [][ /\ \A i \in Slots :
              (slot_state[i] # "FREE" /\ slot_state'[i] = "FREE" /\ ~end_of_stream[i]) =>
                  /\ pc_out = "unmap" /\ index_out = i
                  /\ calls_out.lock = 1
                  /\ calls_out.unlock = 1
                  /\ calls_out'.unmap = 1
                  /\ ~bitstream_locked'[i]
                  /\ mapped_input[i] \notin mapped_resources'
                  /\ pc_out' = "idle" /\ result_out' = "Ok"
        /\ (~Populating /\ Populating') => slot_state[index_in'] = "FREE"
      ]_vars

\* The consumer's call on a slot has returned Ok, the slot was released, and
\* the producer has been handed that slot again.
C23_Witness ==
    /\ pc_out = "idle"
    /\ result_out = "Ok"
    /\ calls_out.unlock = 1
    /\ calls_out.unmap = 1
    /\ pc_in = "frame_populate"
    /\ index_in = index_out
    /\ write_count >= Capacity
    /\ mapped_input[index_in] \notin mapped_resources

\* C24 (Completion signal discipline): the completion event of a slot is
\* un-set while the producer populates and submits the slot, and is set only
\* for a slot that is SUBMITTED and whose submission the hardware has finished;
\* the consumer waits on the slot it dequeued, whose index is then no longer
\* in the channel, and enters the lock step only from a wait that found the
\* event set and reset it; lock_bitstream is called only from the lock step.
C24_SignalDiscipline ==
    [][ /\ pc_in' \in {"frame_populate", "frame_submit", "eos_populate", "eos_submit"} =>
              ~event_obj'[index_in']
        /\ \A i \in Slots :
              event_obj'[i] =>
                  /\ slot_state'[i] = "SUBMITTED"
                  /\ \A job \in hw_pending' : job.completionEvent # Ptr(i)
        /\ pc_out' = "wait" =>
              /\ index_out' \notin Range(channel')
              /\ slot_state'[index_out'] = "SUBMITTED"
        /\ (pc_out # "lock" /\ pc_out' = "lock") =>
              /\ pc_out = "wait"
              /\ index_out' = index_out
              /\ event_obj[index_out]
              /\ ~event_obj'[index_out]
        /\ calls_out'.lock > calls_out.lock =>
              /\ pc_out = "lock"
              /\ calls_out.lock = 0
              /\ lock_params'.outputBitstream = Ptr(index_out)
      ]_vars

\* Slot 0 is in its second use: its first frame was delivered, its second
\* submission has completed, and the consumer waits on its event, which is set.
C24_Witness ==
    /\ pc_out = "wait"
    /\ index_out = 0
    /\ event_obj[0]
    /\ write_count > Capacity
    /\ 1 \in Range(delivered)
    /\ (Capacity + 1) \in Range(signalled)

\* C25 (Slot index bounds): the ring has Capacity slots and build made as many
\* staging subresources; the index a write closure is given, the subresource
\* copy_texture writes for it, every index in the ordering channel and the
\* index the consumer holds are all in 0 .. Capacity - 1; and the slots are the
\* same from the first use to the last: a slot is used again, none is added.
C25_IndexBounds ==
    /\ DOMAIN texture_buffer = 0 .. (Capacity - 1)
    /\ DOMAIN slot_state = Slots
    /\ DOMAIN mapped_input = Slots
    /\ DOMAIN event_obj = Slots
    /\ DOMAIN output_buffer = Slots
    /\ Populating =>
          /\ index_in \in Slots
          /\ CopyTextureIndex(index_in) \in DOMAIN texture_buffer
    /\ Range(channel) \subseteq Slots
    /\ Range(in_flight) \subseteq Slots
    /\ index_out \in Slots
    /\ \A job \in hw_pending : Deref(job.completionEvent) \in Slots

\* The write closure is given slot 0 for the second time while the consumer
\* holds slot 1 and the channel carries the highest index.
C25_Witness ==
    /\ pc_in = "frame_populate"
    /\ index_in = 0
    /\ write_count = Capacity
    /\ ConsumerHolds(1)
    /\ (Capacity - 1) \in Range(channel)

\* C26 (Timeout wait preserves ordering), as claimed: when wait_for_output has
\* returned because the wait on slot index_out timed out, that slot is still
\* the next one a wait_for_output call will wait on; and as long as no
\* retrieval call has failed otherwise, the frames delivered are the first
\* accepted frames in submission order, none skipped.
C26_TimeoutKeepsSlot ==
    /\ (pc_out = "idle" /\ result_out = "EventObjectWaitTimeout") =>
          /\ channel # <<>>
          /\ Head(channel) = index_out
    /\ RetrievalFaults = 0 => delivered = SubSeq(accepted, 1, Len(delivered))

\* get_max_supported_version has reported the driver's version to new.
VersionReported ==
    /\ pc_new = "returned"
    /\ Len(calls_new) >= 2
    /\ ~(Len(calls_new) = 2 /\ result_new = "Sys")

\* C27 (Version gate): when the driver has reported its maximum supported
\* version, EncoderBuilder::new returns UnsupportedVersion exactly when that
\* version is less than 16 * NVENCAPI_MAJOR_VERSION + NVENCAPI_MINOR_VERSION
\* (the minor version being less than 16), and then RawEncoder::new, which
\* opens the encode session, has not been called; for every version greater
\* than or equal to it the test passes and RawEncoder::new is called.
C27_VersionGate ==
    VersionReported =>
        LET this_version == 16 * api_version[1] + api_version[2] IN
        /\ api_version[2] < 16
        /\ result_new = "UnsupportedVersion" <=> max_supported_version < this_version
        /\ result_new = "UnsupportedVersion" => "RawEncoder::new" \notin Range(calls_new)
        /\ max_supported_version >= this_version =>
              /\ calls_new[3] = "RawEncoder::new"
              /\ result_new \in {"Ok", "Sys"}

\* The build is for API 11.1 (177) and the driver reported 176, one less:
\* new returned UnsupportedVersion after two calls.
C27_Witness ==
    /\ pc_new = "returned"
    /\ api_version = <<11, 1>>
    /\ max_supported_version = 176
    /\ result_new = "UnsupportedVersion"
    /\ calls_new = <<"Library::load", "get_max_supported_version">>

\* C28 (update_average_bitrate): after update_average_bitrate(bitrate, vbv)
\* averageBitRate and maxBitRate are both bitrate; vbvBufferSize and
\* vbvInitialDelay are both v when vbv is Some(v), and are what they were
\* before the call when vbv is None; and the step of the call changes nothing
\* of the ring, the slots, the picture parameters or the pending submissions.
C28_UpdateAverageBitrate ==
    [][ call_update' # call_update =>
          /\ call_update'.op = "update_average_bitrate"
          /\ rc_params'.averageBitRate = call_update'.bitrate
          /\ rc_params'.maxBitRate = call_update'.bitrate
          /\ IF call_update'.vbv_buffer_size # None
             THEN /\ rc_params'.vbvBufferSize = Unwrap(call_update'.vbv_buffer_size)
                  /\ rc_params'.vbvInitialDelay = Unwrap(call_update'.vbv_buffer_size)
             ELSE /\ rc_params'.vbvBufferSize = rc_params.vbvBufferSize
                  /\ rc_params'.vbvInitialDelay = rc_params.vbvInitialDelay
          /\ UNCHANGED <<write_count, channel, slot_state, mapped_input,
                         end_of_stream, event_obj, texture_buffer, encode_pic_params,
                         hw_pending, output_buffer, bitstream_locked,
                         mapped_resources, in_flight>>
      ]_vars

\* update_average_bitrate(3, None) was called while one slot was SUBMITTED with
\* its submission pending and another was LOCKED by the consumer, and the
\* driver refused the reconfiguration: the two bitrates are 3 and the two vbv
\* fields are those of the preset.
C28_Witness ==
    /\ call_update # NoUpdate
    /\ call_update.vbv_buffer_size = None
    /\ rc_params = [averageBitRate |-> 3, maxBitRate |-> 3,
                    vbvBufferSize |-> 7, vbvInitialDelay |-> 6]
    /\ pc_in = "idle"
    /\ result_in = "Sys"
    /\ \E i, j \in Slots :
          /\ slot_state[i] = "SUBMITTED"
          /\ \E job \in hw_pending : job.completionEvent = Ptr(i)
          /\ slot_state[j] = "LOCKED"

\* C29 (Default display aspect ratio): when the encoder is built with no
\* display aspect ratio configured and a positive width and height, darWidth
\* and darHeight are the width and the height divided by the same g, they have
\* no common divisor greater than 1 (so g is the greatest common divisor), and
\* darWidth : darHeight is width : height; when Some((w, h)) is configured
\* they are w and h.
C29_DefaultAspectRatio ==
    pc_aspect = "built" =>
        LET width == dar_params.encodeWidth
            height == dar_params.encodeHeight
            dar_width == dar_params.darWidth
            dar_height == dar_params.darHeight
        IN  IF display_aspect_ratio = None
            THEN (width > 0 /\ height > 0) =>
                    /\ \E g \in 1 .. MaxDim :
                          /\ g * dar_width = width
                          /\ g * dar_height = height
                    /\ \A d \in 2 .. MaxDim :
                          ~(dar_width % d = 0 /\ dar_height % d = 0)
                    /\ dar_width * height = dar_height * width
            ELSE <<dar_width, dar_height>> = Unwrap(display_aspect_ratio)

\* A 6 x 4 encoder built with no display aspect ratio configured: 3 : 2.
C29_Witness ==
    /\ pc_aspect = "built"
    /\ display_aspect_ratio = None
    /\ dar_params = [encodeWidth |-> 6, encodeHeight |-> 4,
                      darWidth |-> 3, darHeight |-> 2]

\* The producer is inside write(), waiting for the round-robin slot.
SubmitBlocked == pc_in \in {"frame_acquire", "eos_acquire"}

FrameAccepted(f) == \E i \in 1 .. Len(accepted) : accepted[i] = f
FrameDelivered(f) == \E i \in 1 .. Len(delivered) : delivered[i] = f

\* Progress as long as no call into the driver and no consume callback has
\* failed: a blocked submission returns and an accepted frame is delivered,
\* or a failure has happened by then.
ProgressUnlessFault ==
    /\ SubmitBlocked ~> (~SubmitBlocked \/ TotalFaults > 0)
    /\ \A f \in 1 .. MaxFrames :
          FrameAccepted(f) ~> (FrameDelivered(f) \/ TotalFaults > 0)

\* C30 (Progress): with both threads scheduled, the consumer calling
\* wait_for_output again and again, and the driver signalling every submission
\* it accepted, a producer blocked in a submission eventually leaves the
\* blocking acquisition, and every frame the driver accepted is eventually
\* delivered to the consumer.
C30_Progress ==
    /\ SubmitBlocked ~> ~SubmitBlocked
    /\ \A f \in 1 .. MaxFrames : FrameAccepted(f) ~> FrameDelivered(f)

\* Number of times frame f was handed to the consume closure and read.
TimesDelivered(f) == Cardinality({k \in 1 .. Len(delivered) : delivered[k] = f})

\* Both handles are alive, the consumer is between two wait_for_output calls
\* and every published index has been handed to it.
AllRetrieved ==
    /\ pc_in # "dropped"
    /\ pc_out = "idle"
    /\ channel = <<>>

\* Calls in which the frame could not reach the consume closure, or the
\* closure did not return.
DeliveryFaults ==
    faults["wait"] + faults["lock_bitstream"] + faults["consume_output"]

\* C31 (Exactly-once delivery), as claimed: while both handles are alive, once
\* the retrieval calls for all published indices have returned, every frame
\* the driver accepted has been delivered exactly once.
C31_ExactlyOnceAsClaimed ==
    AllRetrieved => \A f \in Range(accepted) : TimesDelivered(f) = 1

\* C31 (Exactly-once delivery), amended: no frame is delivered more than once,
\* only accepted frames are delivered, never more outputs than accepted
\* submissions, and the consume closure runs at most once per wait_for_output
\* call; a consumer between two calls with an empty channel cannot start a
\* retrieval; and once the retrieval calls for all published indices have
\* returned, every accepted frame has been delivered exactly once provided no
\* completion wait, lock_bitstream call or consume closure has failed.
C31_ExactlyOnce ==
    /\ \A f \in 1 .. MaxFrames :
          /\ TimesDelivered(f) <= 1
          /\ TimesDelivered(f) = 1 => f \in Range(accepted)
    /\ \A k \in 1 .. Len(delivered) : delivered[k] \in 1 .. MaxFrames
    /\ Len(delivered) <= Len(accepted)
    /\ calls_out.consume <= 1
    /\ (pc_out = "idle" /\ channel = <<>>) => ~ENABLED Reader_Take
    /\ (AllRetrieved /\ DeliveryFaults = 0) =>
          \A f \in Range(accepted) : TimesDelivered(f) = 1

\* Three frames were accepted and each was delivered once; one more
\* submission was refused and nothing was delivered for it.
C31_Witness ==
    /\ Len(accepted) = 3
    /\ \A f \in Range(accepted) : TimesDelivered(f) = 1
    /\ Len(delivered) = 3
    /\ rejected # {}
    /\ pc_in = "idle"

\* C32 (End-of-stream is last), as claimed: when the consumer has observed
\* EndOfStream, the output of every frame the driver accepted before the
\* producer was dropped has been delivered.
C32_EndOfStreamLastAsClaimed ==
    eos_returns = 1 => \A f \in Range(accepted) : TimesDelivered(f) = 1

\* C32 (End-of-stream is last), amended: the step in which wait_for_output
\* returns EndOfStream is taken with the producer dropped and every earlier
\* index already handed to the consumer; by then the outputs delivered are the
\* accepted frames in order if no completion wait, lock_bitstream call or
\* consume closure has failed, and otherwise the accepted frames not delivered
\* are no more than those failures; and once EndOfStream has been returned no
\* step delivers an output or starts another retrieval.
C32_EndOfStreamLast ==
    [][ /\ (eos_returns = 0 /\ eos_returns' = 1) =>
              /\ pc_in' = "dropped"
              /\ channel' = <<>>
              /\ Len(accepted') - Len(delivered') <= DeliveryFaults'
              /\ DeliveryFaults' = 0 => delivered' = accepted'
        /\ eos_returns = 1 =>
              /\ delivered' = delivered
              /\ calls_out' = calls_out
              /\ pc_out' = "idle"
      ]_vars

\* The producer was dropped after three accepted frames and the consumer got
\* EndOfStream after the three outputs, in submission order.
C32_Witness ==
    /\ eos_returns = 1
    /\ accepted = <<1, 2, 3>>
    /\ delivered = <<1, 2, 3>>
    /\ TotalFaults = 0

\* build has returned after both of its ok_or(..)? tests passed.
BuildPastPreconditions ==
    /\ BuildReturned
    /\ result_builder \notin {"CodecNotSet", "EncodePresetNotSet"}

\* C33 (Builder consistency), as claimed: whenever build has gone past its
\* precondition checks, the stored profile is Autoselect or one the driver
\* lists for the stored codec, and the stored preset is one the driver lists
\* for the stored codec.
C33_BuilderConsistency ==
    BuildPastPreconditions =>
        LET codec_guid == CodecIntoGuid(Unwrap(codec)) IN
        /\ \/ profile = "Autoselect"
           \/ ProfileIntoGuid(profile) \in DriverProfileGuids(codec_guid)
        /\ PresetIntoGuid(Unwrap(preset)) \in DriverPresetGuids(codec_guid)

\* What holds of the mappings in every state: a slot handed to a write closure
\* has no live mapping, unmap_input_resource is reached only for a slot that is
\* not flagged end-of-stream and whose input is mapped, and no more than
\* Capacity inputs are mapped.
MapUnmapSafety ==
    /\ pc_in \in {"frame_populate", "eos_populate"} =>
          mapped_input[index_in] \notin mapped_resources
    /\ pc_out = "unmap" =>
          /\ ~end_of_stream[index_out]
          /\ mapped_input[index_out] \in mapped_resources
    /\ calls_out.unmap <= 1
    /\ Cardinality(mapped_resources) <= Capacity

\* Neither thread nor the driver can take another step.
PipelineAtRest == ~ENABLED Next

\* C34 (Map/unmap balance), as claimed: the mappings are safe in every state,
\* and every successful map_input is matched by an unmap_input_resource, also
\* when the submission that followed it was refused: once the pipeline has
\* come to rest no input is left mapped.
C34_MapUnmapBalance ==
    /\ MapUnmapSafety
    /\ PipelineAtRest => mapped_resources = {}

\* C35 (Producer drop terminates), as claimed: a drop of EncoderInput that has
\* entered its end-of-stream submission eventually completes, whatever is
\* outstanding and whether or not the consumer still retrieves.
C35_ProducerDropTerminates ==
    (pc_in = "eos_acquire") ~> (pc_in = "dropped")

====
